---- MODULE Spec2Model ----
(***************************************************************************)
(* A model of the StandardGPT query-orchestration core:                    *)
(*   - the in-process ConversationMemory of app.py (Spec),                 *)
(*   - the prompt-response cache of PromptManager (SpecCache),             *)
(*   - the SSE progress bus of sse_manager.py (SpecSSE, SpecReplace),      *)
(*   - the routing phase of the two pipelines on its own (SpecRoute),      *)
(*   - the request handlers and the two pipelines of FlowManager (SpecFlow)*)
(* Text is a sequence of one-character strings, so that strip(), slicing   *)
(* and formatting are computed as the code computes them.                  *)
(***************************************************************************)
EXTENDS Integers, Sequences, FiniteSets, TLC

VARIABLES
    conversation_sessions,  \* app.py: dict session id -> list of exchanges
    conversation_lock,      \* app.py: threading.Lock, its holder or NoThread
    th,                     \* per worker thread: position and locals
    hist,                   \* ghost: exchanges appended per session since its last clear
    nApp,                   \* ghost: number of exchanges handed to update_conversation_memory
    lastRead                \* ghost: what get_conversation_memory returned in the last step

VARIABLES
    rq,                     \* the request being served: its position, inputs and locals
    events,                 \* sse_manager: SSESession.messages of the request's stream session
    is_active,              \* sse_manager: SSESession.is_active of that session
    cache,                  \* app.py: response cache of /api/query (unexpired entries)
    nReq                    \* number of requests accepted so far

VARIABLES
    prompt_cache,           \* prompt_manager: PromptManager.cache, key -> CacheEntry
    cache_stats,            \* prompt_manager: PromptManager.cache_stats
    now,                    \* the clock, in seconds
    call,                   \* per task: the _call_openai_optimized it is in
    llm_calls,              \* ghost: number of requests sent to the LLM
    last_write,             \* ghost: per key, the last result a successful LLM call stored
    served,                 \* ghost: the call that returned in the last step
    nCalls                  \* number of calls begun so far

VARIABLES
    sessions,               \* sse_manager: SSEManager.sessions, id -> SSESession object
    heap,                   \* the SSESession objects constructed so far
    sub,                    \* the event_stream generator of the subscriber
    published,              \* ghost: per object, the events send_event accepted
    used_ids,               \* ghost: the session ids used so far
    nSent,                  \* number of events published so far
    nConn,                  \* number of connections of the subscriber so far
    latest,                 \* ghost: per id, the events accepted since its last create_session
    replaced                \* ghost: per id, the object its last create_session replaced

VARIABLES
    runs                    \* per pipeline run: its four inputs and the route it finalised

memVars == <<conversation_sessions, conversation_lock, th, hist, nApp, lastRead>>
memGhost == <<conversation_lock, th, hist, nApp, lastRead>>
flowVars == <<rq, events, is_active, cache, nReq>>

cacheVars == <<prompt_cache, cache_stats, now, call, llm_calls, last_write, served, nCalls>>

sseVars == <<sessions, heap, sub, published, used_ids, nSent, nConn, latest, replaced>>

VARIABLES
    calc                    \* a call of a pure function: its input and what it returned

VARIABLES
    pipe                    \* per pipeline run: the two tasks of asyncio.gather and the steps after it

VARIABLES
    embedding_cache,        \* the items of the dict, in insertion order: text hash, creation time
    emb,                    \* the Embed call in progress: configuration, attempts made, providers invoked
    embed_now               \* datetime.now() of the embedding client, in seconds

VARIABLES
    idle                    \* the event_stream loop of a subscriber with nothing to deliver

routeVars == <<runs>>

pureVars == <<calc>>

gatherVars == <<pipe>>

embedVars == <<embedding_cache, emb, embed_now>>

idleVars == <<idle>>

vars == <<memVars, flowVars, cacheVars, sseVars, routeVars, pureVars, gatherVars, embedVars,
          idleVars>>

\* what the steps of the memory threads leave alone
notMem == <<flowVars, cacheVars, sseVars, routeVars, pureVars, gatherVars, embedVars, idleVars>>

\* what the steps of a request's handler and pipeline leave alone
notFlow == <<cacheVars, sseVars, routeVars, pureVars, gatherVars, embedVars, idleVars>>

\* what the steps of the prompt cache leave alone
notCache == <<memVars, flowVars, sseVars, routeVars, pureVars, gatherVars, embedVars, idleVars>>

\* what the steps of the progress bus leave alone
notSSE == <<memVars, flowVars, cacheVars, routeVars, pureVars, gatherVars, embedVars, idleVars>>

\* what a run of the routing phase alone leaves alone
notRoute == <<memVars, flowVars, cacheVars, sseVars, pureVars, gatherVars, embedVars, idleVars>>

\* what a call of a pure function leaves alone
notPure == <<memVars, flowVars, cacheVars, sseVars, routeVars, gatherVars, embedVars, idleVars>>

\* what the tasks and the steps of a pipeline run leave alone
notGather == <<memVars, flowVars, cacheVars, sseVars, routeVars, pureVars, embedVars, idleVars>>

\* everything but the embedding client
notEmbed == <<memVars, flowVars, cacheVars, sseVars, routeVars, pureVars, gatherVars, idleVars>>

\* everything but the idle subscriber loop
notIdle == <<memVars, flowVars, cacheVars, sseVars, routeVars, pureVars, gatherVars, embedVars>>

(***************************************************************************)
(* Text helpers                                                            *)
(***************************************************************************)
Min(a, b) == IF a <= b THEN a ELSE b

Whitespace == {" ", "\n", "\r", "\t"}

RECURSIVE lstrip(_)
lstrip(s) == IF s # <<>> /\ Head(s) \in Whitespace THEN lstrip(Tail(s)) ELSE s

RECURSIVE rstrip(_)
rstrip(s) ==
    IF s # <<>> /\ s[Len(s)] \in Whitespace
    THEN rstrip(SubSeq(s, 1, Len(s) - 1))
    ELSE s

\* str.strip()
strip(s) == rstrip(lstrip(s))

\* s[:n]
SlicePrefix(s, n) == SubSeq(s, 1, Min(Len(s), n))

\* s[-n:] for n > 0
SliceLast(s, n) == SubSeq(s, Len(s) - Min(Len(s), n) + 1, Len(s))

\* str.replace(c, ' ') for the two line-break characters
ReplaceBreaks(s) == [i \in 1..Len(s) |-> IF s[i] \in {"\n", "\r"} THEN " " ELSE s[i]]

RECURSIVE JoinLines(_)
JoinLines(parts) ==
    IF parts = <<>> THEN <<>>
    ELSE IF Len(parts) = 1 THEN parts[1]
    ELSE parts[1] \o <<"\n">> \o JoinLines(Tail(parts))

(***************************************************************************)
(* ConversationMemory (app.py)                                             *)
(***************************************************************************)
MaxAppends == 6

MaxExchanges == 5
SystemMax == 1000
RebuildMax == 5

Threads == {1, 2}
NoThread == 0
Sessions == {"A", "B"}

Digit == <<"1", "2", "3", "4", "5", "6", "7", "8", "9">>

\* the k-th exchange handed to update_conversation_memory by a query or by
\* save-memory: every request carries its own text, some with surrounding blanks
UserText(k) == IF k % 2 = 0 THEN <<" ", "q", Digit[k]>> ELSE <<"q", "\n", Digit[k]>>
SystemText(k) == IF k % 3 = 0 THEN <<"a", Digit[k], "\n">> ELSE <<"a", Digit[k]>>

\* messages of a stored conversation; one lacks its answer
R(i) == [question |-> <<"r", Digit[i]>>, answer |-> <<"s", Digit[i], " ">>, complete |-> TRUE]
RBad == [question |-> <<"r", "0">>, answer |-> <<>>, complete |-> FALSE]

\* message lists posted to /api/session/rebuild: more than RebuildMax
\* messages, one of the recent ones incomplete
RebuildInputs ==
    { <<R(1), RBad, R(2), R(3), R(4), R(5)>> }

NoText == <<>>
NoRead == [sid |-> "", ret |-> NoText]

IdleThread ==
    [pc |-> "idle", op |-> "none", sid |-> "A", fresh |-> FALSE,
     user |-> NoText, system |-> NoText, tmp |-> <<>>, rest |-> <<>>]

\* a lock that never blocks (used to test C2)
NoLock(t) == TRUE

\* `with conversation_lock:` can be entered by thread t
CanAcquire(t) == conversation_lock = NoThread

\* the stored exchange (its timestamp is never read and is left out)
Exchange(user_message, system_response) ==
    [user |-> strip(user_message),
     system |-> SlicePrefix(strip(system_response), SystemMax)]

\* d[k] = v for a dict d
DictSet(d, k, v) == [x \in DOMAIN d \cup {k} |-> IF x = k THEN v ELSE d[x]]

\* a deletion that empties the dict (used to test C4)
DictDelAll(d, k) == [x \in {} |-> <<>>]

\* del d[k]
DictDel(d, k) == [x \in DOMAIN d \ {k} |-> d[x]]

\* a slice that keeps the oldest exchanges (used to test C1)
KeepOldest(history) == SlicePrefix(history, MaxExchanges)

\* conversation_sessions[session_id][-5:], the slice kept past the cap
KeepRecent(history) == SliceLast(history, MaxExchanges)

\* a rendering that puts the newest exchange first (used to test C21)
get_conversation_memory_newest_first(d, sid) ==
    IF sid \notin DOMAIN d \/ d[sid] = <<>> THEN <<"0">>
    ELSE LET last == SliceLast(d[sid], 5)
             line(i) ==
                 LET e == last[Len(last) + 1 - ((i + 1) \div 2)] IN
                 IF i % 2 = 1
                 THEN <<"U", "S", "E", "R", ":", " ">> \o strip(ReplaceBreaks(e.user))
                 ELSE <<"S", "Y", "S", "T", "E", "M", ":", " ">>
                          \o strip(ReplaceBreaks(e.system))
         IN JoinLines([i \in 1..(2 * Len(last)) |-> line(i)])

\* get_conversation_memory(session_id) on the dict d
get_conversation_memory(d, sid) ==
    IF sid \notin DOMAIN d \/ d[sid] = <<>> THEN <<"0">>
    ELSE LET last == SliceLast(d[sid], 5)
             line(i) ==
                 LET e == last[(i + 1) \div 2] IN
                 IF i % 2 = 1
                 THEN <<"U", "S", "E", "R", ":", " ">> \o strip(ReplaceBreaks(e.user))
                 ELSE <<"S", "Y", "S", "T", "E", "M", ":", " ">>
                          \o strip(ReplaceBreaks(e.system))
         IN JoinLines([i \in 1..(2 * Len(last)) |-> line(i)])

\* update_conversation_memory(session_id, user_message, system_response) on the
\* dict d, run without interruption
update_conversation_memory(d, sid, user_message, system_response) ==
    LET base == IF sid \in DOMAIN d THEN d[sid] ELSE <<>>
        new == Append(base, Exchange(user_message, system_response))
    IN DictSet(d, sid, IF Len(new) > MaxExchanges THEN KeepRecent(new) ELSE new)

\* clear_conversation_memory(session_id) on the dict d
clear_conversation_memory(d, sid) == IF sid \in DOMAIN d THEN DictDel(d, sid) ELSE d

Read(sid) == [sid |-> sid, ret |-> get_conversation_memory(conversation_sessions, sid)]

\* where a thread continues once update_conversation_memory returns
AfterUpdate(l) ==
    CASE l.op = "save" -> [l EXCEPT !.pc = "get", !.op = "none"]
      [] l.op = "rebuild" -> [l EXCEPT !.pc = "rb_loop"]
      [] OTHER -> IdleThread

\* messages[-5:] if len(messages) > 5 else messages
RecentMessages(messages) ==
    IF Len(messages) > RebuildMax THEN SliceLast(messages, RebuildMax) ELSE messages

NumComplete(messages) == Cardinality({i \in 1..Len(messages) : messages[i].complete})

\* the messages of the rebuild loop from the next one that carries both a
\* question and an answer
RECURSIVE SkipIncomplete(_)
SkipIncomplete(messages) ==
    IF messages # <<>> /\ ~Head(messages).complete
    THEN SkipIncomplete(Tail(messages))
    ELSE messages

\* thread t enters update_conversation_memory(sid, user, system): it takes the
\* lock and evaluates `session_id not in conversation_sessions`
EnterUpdate(t, l, sid, user_message, system_response) ==
    /\ CanAcquire(t)
    /\ conversation_lock' = t
    /\ th' = [th EXCEPT ![t] = [l EXCEPT
                 !.pc = "upd_append", !.sid = sid,
                 !.fresh = (sid \notin DOMAIN conversation_sessions),
                 !.user = user_message, !.system = system_response]]

\* POST /api/session/save-memory: strips both fields, rejects empty ones (400),
\* then calls update_conversation_memory and get_conversation_memory
SaveMemory(t, sid) ==
    /\ UNCHANGED notMem
    /\ th[t].pc = "idle" /\ nApp < MaxAppends
    /\ LET user_message == strip(UserText(nApp + 1))
           system_response == strip(SystemText(nApp + 1))
       IN /\ user_message # <<>> /\ system_response # <<>>
          /\ EnterUpdate(t, [IdleThread EXCEPT !.op = "save"], sid,
                         user_message, system_response)
    /\ nApp' = nApp + 1
    /\ lastRead' = NoRead
    /\ UNCHANGED <<conversation_sessions, hist>>

\* POST /api/query: get_conversation_memory(session_id); the pipeline runs next
QueryBegin(t, sid) ==
    /\ UNCHANGED notMem
    /\ th[t].pc = "idle" /\ nApp < MaxAppends
    /\ CanAcquire(t)
    /\ th' = [th EXCEPT ![t] = [IdleThread EXCEPT
                 !.pc = "upd_lock", !.op = "query", !.sid = sid]]
    /\ lastRead' = Read(sid)
    /\ UNCHANGED <<conversation_sessions, conversation_lock, hist, nApp>>

\* POST /api/query: update_conversation_memory(session_id, sanitized_question,
\* final_answer) once the pipeline has returned its answer
UpdAcquire(t) ==
    /\ UNCHANGED notMem
    /\ th[t].pc = "upd_lock" /\ nApp < MaxAppends
    /\ EnterUpdate(t, th[t], th[t].sid, strip(UserText(nApp + 1)), SystemText(nApp + 1))
    /\ nApp' = nApp + 1
    /\ lastRead' = NoRead
    /\ UNCHANGED <<conversation_sessions, hist>>

\* update_conversation_memory: create the session if the test said so, append
\* the exchange and, past the cap, take the slice
UpdAppend(t) ==
    /\ UNCHANGED notMem
    /\ th[t].pc = "upd_append"
    /\ LET sid == th[t].sid
           e == Exchange(th[t].user, th[t].system)
           l == [th[t] EXCEPT !.user = NoText, !.system = NoText, !.fresh = FALSE]
       IN IF ~th[t].fresh /\ sid \notin DOMAIN conversation_sessions
          THEN \* KeyError: the with-block releases the lock, the handler answers 500
               /\ conversation_lock' = NoThread
               /\ th' = [th EXCEPT ![t] = IdleThread]
               /\ UNCHANGED <<conversation_sessions, hist>>
          ELSE LET base == IF th[t].fresh THEN <<>> ELSE conversation_sessions[sid]
                   new == Append(base, e)
               IN /\ conversation_sessions' = DictSet(conversation_sessions, sid, new)
                  /\ hist' = [hist EXCEPT ![sid] = Append(@, e)]
                  /\ IF Len(new) > MaxExchanges
                     THEN /\ th' = [th EXCEPT ![t] = [l EXCEPT !.pc = "upd_trim",
                                                               !.tmp = KeepRecent(new)]]
                          /\ UNCHANGED conversation_lock
                     ELSE /\ th' = [th EXCEPT ![t] = AfterUpdate(l)]
                          /\ conversation_lock' = NoThread
    /\ lastRead' = NoRead
    /\ UNCHANGED nApp

\* update_conversation_memory: store the slice, leave the lock
UpdTrim(t) ==
    /\ UNCHANGED notMem
    /\ th[t].pc = "upd_trim"
    /\ conversation_sessions' = DictSet(conversation_sessions, th[t].sid, th[t].tmp)
    /\ th' = [th EXCEPT ![t] = AfterUpdate([th[t] EXCEPT !.tmp = <<>>])]
    /\ conversation_lock' = NoThread
    /\ lastRead' = NoRead
    /\ UNCHANGED <<hist, nApp>>

\* POST /api/session/clear: clear_conversation_memory(session_id) for a session
\* that is in the dict
ClearSession(t, sid) ==
    /\ UNCHANGED notMem
    /\ th[t].pc = "idle"
    /\ sid \in DOMAIN conversation_sessions
    /\ CanAcquire(t)
    /\ conversation_sessions' = clear_conversation_memory(conversation_sessions, sid)
    /\ hist' = [hist EXCEPT ![sid] = <<>>]
    /\ lastRead' = NoRead
    /\ UNCHANGED <<conversation_lock, th, nApp>>

\* POST /api/session/rebuild: clear_conversation_memory(session_id), then the
\* slice of the posted messages
RebuildBegin(t, sid, messages) ==
    /\ UNCHANGED notMem
    /\ th[t].pc = "idle"
    /\ CanAcquire(t)
    /\ nApp + NumComplete(RecentMessages(messages)) <= MaxAppends
    /\ nApp' = nApp + NumComplete(RecentMessages(messages))
    /\ conversation_sessions' = clear_conversation_memory(conversation_sessions, sid)
    /\ hist' = [hist EXCEPT ![sid] = <<>>]
    /\ th' = [th EXCEPT ![t] = [IdleThread EXCEPT
                 !.pc = "rb_loop", !.op = "rebuild", !.sid = sid,
                 !.rest = RecentMessages(messages)]]
    /\ lastRead' = NoRead
    /\ UNCHANGED conversation_lock

\* POST /api/session/rebuild: the loop reaches the next complete message and calls
\* update_conversation_memory, or ends
RebuildLoop(t) ==
    /\ UNCHANGED notMem
    /\ th[t].pc = "rb_loop"
    /\ LET todo == SkipIncomplete(th[t].rest)
       IN IF todo = <<>>
          THEN /\ th' = [th EXCEPT ![t] = [th[t] EXCEPT !.pc = "get", !.op = "none",
                                                       !.rest = <<>>]]
               /\ UNCHANGED conversation_lock
          ELSE EnterUpdate(t, [th[t] EXCEPT !.rest = Tail(todo)], th[t].sid,
                           Head(todo).question, Head(todo).answer)
    /\ lastRead' = NoRead
    /\ UNCHANGED <<conversation_sessions, hist, nApp>>

\* get_conversation_memory at the end of save-memory and rebuild; the handler
\* returns its response
GetAfter(t) ==
    /\ UNCHANGED notMem
    /\ th[t].pc = "get"
    /\ CanAcquire(t)
    /\ lastRead' = Read(th[t].sid)
    /\ th' = [th EXCEPT ![t] = IdleThread]
    /\ UNCHANGED <<conversation_sessions, conversation_lock, hist, nApp>>

MemInit ==
    /\ conversation_sessions = [s \in {} |-> <<>>]
    /\ conversation_lock = NoThread
    /\ th = [t \in Threads |-> IdleThread]
    /\ hist = [s \in Sessions |-> <<>>]
    /\ nApp = 0
    /\ lastRead = NoRead

MemNext ==
    \E t \in Threads :
        \/ \E sid \in Sessions : SaveMemory(t, sid)
        \/ \E sid \in Sessions : QueryBegin(t, sid)
        \/ UpdAcquire(t)
        \/ UpdAppend(t)
        \/ UpdTrim(t)
        \/ \E sid \in Sessions : ClearSession(t, sid)
        \/ \E sid \in Sessions, messages \in RebuildInputs : RebuildBegin(t, sid, messages)
        \/ RebuildLoop(t)
        \/ GetAfter(t)

(***************************************************************************)
(* Claims about ConversationMemory, checked under Spec                     *)
(***************************************************************************)
\* the exchanges of history h that a cap of MaxExchanges keeps: its last ones
MostRecent(h) ==
    LET n == Min(Len(h), MaxExchanges)
    IN [i \in 1..n |-> h[Len(h) - n + i]]

\* no update of session s is between its append and its slice
Settled(s) == \A t \in Threads : ~(th[t].pc = "upd_trim" /\ th[t].sid = s)

\* C1: once an append, a clear or a rebuild step on a session has finished, the
\* session holds at most 5 exchanges, and they are the most recent ones appended
\* since the session was last cleared, in the order of their appending
C1_CapOfFive ==
    \A s \in Sessions :
        Settled(s) =>
            IF s \in DOMAIN conversation_sessions
            THEN /\ Len(conversation_sessions[s]) <= 5
                 /\ conversation_sessions[s] = MostRecent(hist[s])
            ELSE hist[s] = <<>>

\* C1 witness: a session that received more than 5 exchanges holds 5 of them
C1_Witness ==
    \E s \in DOMAIN conversation_sessions :
        /\ Settled(s)
        /\ Len(hist[s]) > 5
        /\ Len(conversation_sessions[s]) = 5

InUpdate(t) == th[t].pc \in {"upd_append", "upd_trim"}

\* C2: updates of the memory exclude each other (a thread inside
\* update_conversation_memory holds the lock, so at most one is inside), and a
\* read returns the rendering of every exchange whose append completed before
\* it, up to the cap of the 5 most recent
C2_SerialisedAppends ==
    /\ \A t \in Threads : InUpdate(t) => conversation_lock = t
    /\ lastRead # NoRead =>
          lastRead.ret = get_conversation_memory(hist, lastRead.sid)

\* C2 witness: a read returns two or more exchanges of a session while another
\* request for the same session waits to append
C2_Witness ==
    /\ lastRead # NoRead
    /\ Len(hist[lastRead.sid]) >= 2
    /\ lastRead.ret # <<"0">>
    /\ \E t \in Threads : th[t].pc = "upd_lock" /\ th[t].sid = lastRead.sid

\* what the dict holds for session s: whether the key exists, and its list
Stored(s) ==
    IF s \in DOMAIN conversation_sessions
    THEN <<TRUE, conversation_sessions[s]>>
    ELSE <<FALSE, <<>>>>

\* thread t takes a step of an append, a clear or a rebuild on session s
StepOn(t, s) ==
    \/ SaveMemory(t, s)
    \/ ClearSession(t, s)
    \/ \E messages \in RebuildInputs : RebuildBegin(t, s, messages)
    \/ th[t].sid = s /\ (UpdAcquire(t) \/ UpdAppend(t) \/ UpdTrim(t) \/ RebuildLoop(t))

\* C4: a step of an append, a clear or a rebuild on one session leaves what is
\* stored for every other session unchanged: a step that changes what is
\* stored for session o is no step of an operation on another session
C4_SessionIsolation ==
    [][\A o \in Sessions :
          Stored(o)' # Stored(o)
             => \A t \in Threads, s \in Sessions \ {o} : ~StepOn(t, s)]_vars

\* C4 witness: a rebuild of session A has cleared it and waits to append while
\* session B holds two exchanges
C4_Witness ==
    /\ \E t \in Threads : th[t].pc = "rb_loop" /\ th[t].sid = "A" /\ th[t].rest # <<>>
    /\ "A" \notin DOMAIN conversation_sessions
    /\ "B" \in DOMAIN conversation_sessions
    /\ Len(conversation_sessions["B"]) >= 2

\* the lines of a text, split at its line feeds
RECURSIVE SplitLines(_)
SplitLines(text) ==
    IF \A i \in 1..Len(text) : text[i] # "\n" THEN <<text>>
    ELSE LET k == CHOOSE i \in 1..Len(text) :
                     text[i] = "\n" /\ \A j \in 1..(i - 1) : text[j] # "\n"
         IN <<SubSeq(text, 1, k - 1)>> \o SplitLines(SubSeq(text, k + 1, Len(text)))

\* a stored text as one line of the rendering: line breaks become blanks, the
\* blanks at its ends are dropped
OneLine(text) == strip(ReplaceBreaks(text))

\* C21: a read of a session returns the literal "0" exactly when the session
\* is absent or holds no exchanges; otherwise the text returned has two lines
\* per stored exchange, in append order: "USER: " with the question, then
\* "SYSTEM: " with the answer
C21_MemoryRendering ==
    lastRead # NoRead =>
        LET present == lastRead.sid \in DOMAIN conversation_sessions
            history == IF present THEN conversation_sessions[lastRead.sid] ELSE <<>>
            lines == SplitLines(lastRead.ret)
        IN /\ lastRead.ret = <<"0">> <=> history = <<>>
           /\ history # <<>> =>
                 /\ Len(lines) = 2 * Len(history)
                 /\ \A k \in 1..Len(history) :
                       /\ lines[2 * k - 1] =
                             <<"U", "S", "E", "R", ":", " ">> \o OneLine(history[k].user)
                       /\ lines[2 * k] =
                             <<"S", "Y", "S", "T", "E", "M", ":", " ">>
                                \o OneLine(history[k].system)

\* C21 witness: a read has returned the lines of three exchanges, one of them
\* stored with a line break inside its question
C21_Witness ==
    /\ lastRead # NoRead
    /\ lastRead.sid \in DOMAIN conversation_sessions
    /\ Len(conversation_sessions[lastRead.sid]) = 3
    /\ Len(SplitLines(lastRead.ret)) = 6
    /\ \E k \in 1..3 : \E i \in 1..Len(conversation_sessions[lastRead.sid][k].user) :
          conversation_sessions[lastRead.sid][k].user[i] = "\n"

(***************************************************************************)
(* The request handlers and the two pipelines (app.py, flow_manager.py)    *)
(***************************************************************************)
MaxRequests == 2
MaxTokens == 2

\* questions posted by clients (none holds markup, so bleach.clean changes none)
Questions == { <<" ", "h", "v", "a">>, <<"a", "'", "b">>, <<"a", "b">>, <<" ", " ", " ">> }

\* stand-ins for the texts the code produces
ValidationMessage == <<"U", "g", "y", "l", "d", "i", "g">>
EmbeddingsMessage == <<"E", "m", "b">>
SearchMessage == <<"E", "S">>
StreamFailedMessage == <<"S", "t", "r">>
TimeoutMessage == <<"T", "i", "d">>
TechnicalMessage == <<"T", "e", "k", "n", "i", "s", "k">>
ProcessingMessage == <<"B", "e", "k", "l", "a", "g", "e", "r">>
FallbackAnswer == <<"R", "e", "g">>
DirectAnswer == <<"S", "v", "a", "r">>
PipelineErrorMessage == <<"F", "e", "i", "l">>
TokenTexts == { <<"S", "v">>, <<"a", "r">> }

\* outputs of analyze_question after its validation against valid_routes
valid_routes == {"including", "without", "personal", "memory"}

\* terms an extraction prompt may return
Terms == {<<"N", "S", " ", "3", "4", "5", "7">>, <<"2", "0", "1", "8">>}
TermLists == { <<>>, <<<<"2", "0", "1", "8">>>>, <<<<"N", "S", " ", "3", "4", "5", "7">>>> }

\* [A-Z], [0-9] and [0-9A-Z\-]
UpperCaseLetters ==
    {"A", "B", "C", "D", "E", "F", "G", "H", "I", "J", "K", "L", "M",
     "N", "O", "P", "Q", "R", "S", "T", "U", "V", "W", "X", "Y", "Z"}
Digits == {"0", "1", "2", "3", "4", "5", "6", "7", "8", "9"}
MainCharacters == UpperCaseLetters \cup Digits \cup {"-"}

\* re.match(standard_pattern, text): a prefix [A-Z]{1,10} ending at a, [\s\-]?,
\* a main part [0-9A-Z\-]{1,15} ending at b, then the end of the text or a
\* suffix [\:\+][0-9A-Z\-]{1,20} up to it; $ also matches before a last "\n"
MatchesStandardPattern(text) ==
    \E n \in {Len(text)} \cup
              (IF text # <<>> /\ text[Len(text)] = "\n" THEN {Len(text) - 1} ELSE {}) :
      \E a \in 1..Min(n, 10) : \E sep \in {0, 1} :
        /\ \A i \in 1..a : text[i] \in UpperCaseLetters
        /\ sep = 1 => (a + 1 <= n /\ text[a + 1] \in Whitespace \cup {"-"})
        /\ \E b \in (a + sep + 1)..Min(n, a + sep + 15) :
              /\ \A i \in (a + sep + 1)..b : text[i] \in MainCharacters
              /\ \/ b = n
                 \/ /\ b + 2 <= n /\ n - (b + 1) <= 20
                    /\ text[b + 1] \in {":", "+"}
                    /\ \A i \in (b + 2)..n : text[i] \in MainCharacters

\* str.upper()
LowerCase ==
    <<"a", "b", "c", "d", "e", "f", "g", "h", "i", "j", "k", "l", "m",
      "n", "o", "p", "q", "r", "s", "t", "u", "v", "w", "x", "y", "z">>
UpperCase ==
    <<"A", "B", "C", "D", "E", "F", "G", "H", "I", "J", "K", "L", "M",
      "N", "O", "P", "Q", "R", "S", "T", "U", "V", "W", "X", "Y", "Z">>
upper(text) ==
    [i \in 1..Len(text) |->
        IF \E k \in 1..Len(LowerCase) : LowerCase[k] = text[i]
        THEN UpperCase[CHOOSE k \in 1..Len(LowerCase) : LowerCase[k] = text[i]]
        ELSE text[i]]

\* QueryRequest(question=...): the sanitized question, or a validation error
QueryRequest(question) ==
    LET sanitized == strip(question)
    IN IF Len(question) < 3 \/ Len(question) > 1000 \/ sanitized = <<>> \/ Len(sanitized) < 3
       THEN [is_valid |-> FALSE, question |-> <<>>]
       ELSE [is_valid |-> TRUE, question |-> sanitized]

\* a substitution that drops the whitespace (used to test C22)
RemoveWhitespace(text) == SelectSeq(text, LAMBDA c : c \notin Whitespace)

\* re.sub(r'\s+', ' ', text)
RECURSIVE NormalizeWhitespace(_)
NormalizeWhitespace(text) ==
    IF text = <<>> THEN <<>>
    ELSE IF Head(text) \in Whitespace
         THEN <<" ">> \o NormalizeWhitespace(lstrip(text))
         ELSE <<Head(text)>> \o NormalizeWhitespace(Tail(text))

\* the characters of DANGEROUS_PATTERNS' class [<>"']
DangerousCharacters == {"<", ">", "\"", "'"}

\* \w, for the lower-case text the patterns are searched in
WordCharacters ==
    {"a", "b", "c", "d", "e", "f", "g", "h", "i", "j", "k", "l", "m", "n", "o", "p",
     "q", "r", "s", "t", "u", "v", "w", "x", "y", "z", "_",
     "0", "1", "2", "3", "4", "5", "6", "7", "8", "9"}

\* re.search(r'on\w+\s*=', question_lower)
OnEventHandler(q) ==
    \E i \in 1..Len(q) : \E j \in (i + 2)..Len(q) : \E k \in j..(Len(q) - 1) :
        /\ q[i] = "o" /\ q[i + 1] = "n"
        /\ \A m \in (i + 2)..j : q[m] \in WordCharacters
        /\ \A m \in (j + 1)..k : q[m] \in Whitespace
        /\ q[k + 1] = "="

\* the characters of the modelled questions that allowed_pattern has no place for
NotAllowedCharacters == {"<", ">", "\"", "'", "{", "}"}

\* InputValidator.validate_question (of DANGEROUS_PATTERNS, the event-handler
\* pattern and the character class; the others need words that no modelled
\* question holds, and no modelled question holds an upper-case letter)
validate_question(question) ==
    IF question = <<>> \/ Len(strip(question)) < 3 \/ Len(question) > 1000
       \/ OnEventHandler(question)
       \/ (\E i \in 1..Len(question) : question[i] \in DangerousCharacters)
       \/ (\E j \in 1..Len(question) : question[j] \in NotAllowedCharacters)
    THEN [is_valid |-> FALSE, error_message |-> ValidationMessage, sanitized_input |-> <<>>]
    ELSE [is_valid |-> TRUE, error_message |-> <<>>,
          sanitized_input |-> NormalizeWhitespace(strip(question))]

\* InputValidator.validate_standard_numbers: always valid; keeps, stripped and
\* upper-cased, the terms of at most 50 characters that match standard_pattern
validate_standard_numbers(standards) ==
    LET std_clean(std) == upper(strip(std))
        kept == SelectSeq(standards,
                    LAMBDA std : Len(std_clean(std)) <= 50
                                 /\ MatchesStandardPattern(std_clean(std)))
    IN [is_valid |-> TRUE,
        sanitized_input |-> IF kept = <<>> THEN <<>>
                            ELSE [i \in 1..Len(kept) |-> std_clean(kept[i])]]

\* ''.join(answer_tokens)
RECURSIVE Join(_)
Join(tokens) == IF tokens = <<>> THEN <<>> ELSE Head(tokens) \o Join(Tail(tokens))

\* SSE events
Progress(stage, progress) ==
    [type |-> "progress", stage |-> stage, progress |-> progress, text |-> <<>>]
TokenEvent(token) == [type |-> "token", stage |-> "", progress |-> 0, text |-> token]
FinalAnswer(answer) == [type |-> "final_answer", stage |-> "", progress |-> 0, text |-> answer]
ErrorEvent(message) == [type |-> "error", stage |-> "", progress |-> 0, text |-> message]

\* the route process_query_with_sse takes
StreamRoute(analysis, standard_numbers) ==
    IF analysis = "memory" THEN "memory"
    ELSE IF analysis = "including" /\ standard_numbers # <<>> THEN "including"
    ELSE IF analysis = "personal" THEN "personal"
    ELSE "without"

\* the route process_query takes, from the analysis as it stands after the
\* memory fallback and from result["memory_terms"]
QueryRoute(analysis, memory_terms, standard_numbers) ==
    IF analysis = "memory" /\ memory_terms # <<>> THEN "memory"
    ELSE IF analysis = "including" /\ standard_numbers # <<>> THEN "including"
    ELSE IF analysis = "personal" THEN "personal"
    ELSE "without"

\* process_query_with_sse, step 4: the extraction and the route, from the
\* analysis output and the terms the extraction prompt returned
StreamRouting(output, terms) ==
    IF output = "memory"
    THEN [analysis |-> output, memory_terms |-> terms, standard_numbers |-> <<>>,
          route |-> "memory", memory_fallback |-> FALSE]
    ELSE [analysis |-> output, memory_terms |-> <<>>, standard_numbers |-> terms,
          route |-> StreamRoute(output, terms), memory_fallback |-> FALSE]

\* process_query, phases 2 and 3: the extraction with its memory fallback, the
\* validation of the memory terms and the route
QueryRouting(output, terms) ==
    LET fallback == output = "memory" /\ terms = <<>>
        analysis == IF fallback THEN "without" ELSE output
        memory_terms == IF analysis = "memory"
                        THEN validate_standard_numbers(terms).sanitized_input
                        ELSE <<>>
        standard_numbers == IF output = "memory" THEN <<>> ELSE terms
    IN [analysis |-> analysis, memory_terms |-> memory_terms,
        standard_numbers |-> standard_numbers,
        route |-> QueryRoute(analysis, memory_terms, standard_numbers),
        memory_fallback |-> fallback]

\* the query object under construction: the builder invoked and the standards
\* passed to it
NoQuery == [raises |-> FALSE, builder |-> "none", standards |-> <<>>]

\* the query-building phase of both pipelines, which hand it the route and the
\* validated standards: QueryObjectBuilder has no build_memory_query
\* (AttributeError), build_personal_query calls qo_personal.create_query with a
\* keyword it does not take (TypeError), build_filter_query and
\* build_textual_query return a query object
build_query_object(route, sanitized_standards) ==
    CASE route = "memory" -> [raises |-> TRUE, builder |-> "memory", standards |-> <<>>]
      [] route = "including" ->
            [raises |-> FALSE, builder |-> "filter", standards |-> sanitized_standards]
      [] route = "personal" -> [raises |-> TRUE, builder |-> "personal", standards |-> <<>>]
      [] OTHER -> [raises |-> FALSE, builder |-> "textual", standards |-> <<>>]

\* The texts of the search results, too long to hold character by character,
\* are sequences of pieces: Str(s, n) is n characters, either the literal s or
\* the first n characters of the field value called s
Str(s, n) == [s |-> s, n |-> n]

\* len(text)
RECURSIVE TextLen(_)
TextLen(text) == IF text = <<>> THEN 0 ELSE Head(text).n + TextLen(Tail(text))

\* a hit of the search engine: the reference and the text of its _source
Hit(reference, text) == [reference |-> reference, text |-> text]

\* the hit of a search that finds one document
FoundHit == Hit(Str("A", 10), Str("a", 5))

\* what the search request meets: hits, no hits, a transport error or a
\* non-success status, or a success status whose body is an empty object
SearchOutcomes == {"hits", "no_hits", "error", "empty_body"}

NoResponse == [total |-> 0, hits |-> <<>>, timed_out |-> FALSE, body |-> FALSE]

\* a search that hands its failure to the caller as no response at all (used
\* to test C14)
search_failing(outcome) ==
    CASE outcome = "hits" ->
            [total |-> 1, hits |-> <<FoundHit>>, timed_out |-> FALSE, body |-> TRUE]
      [] outcome = "no_hits" ->
            [total |-> 0, hits |-> <<>>, timed_out |-> FALSE, body |-> TRUE]
      [] OTHER -> NoResponse

\* ElasticsearchClient.search: the response body on success, an empty response
\* (total 0, no hits, timed_out) on an exception or a non-success status
search(outcome) ==
    CASE outcome = "hits" ->
            [total |-> 1, hits |-> <<FoundHit>>, timed_out |-> FALSE, body |-> TRUE]
      [] outcome = "no_hits" ->
            [total |-> 0, hits |-> <<>>, timed_out |-> FALSE, body |-> TRUE]
      [] outcome = "error" ->
            [total |-> 0, hits |-> <<>>, timed_out |-> TRUE, body |-> TRUE]
      [] OTHER -> NoResponse

NoDocumentsMessage == <<Str("Ingen relevante dokumenter funnet.", 34)>>

max_total_length == 200000

\* the chunk of the i-th hit (i below 10, a score and a page of four and two
\* characters); a text of more than 2000 characters is cut to 1800 and "..."
Chunk(i, hit) ==
    LET text == IF hit.text.n > 2000
                THEN <<Str(hit.text.s, 1800), Str("...", 3)>>
                ELSE <<hit.text>>
    IN <<Str("Dokument ", 9), Str(ToString(i), 1), Str(" (score: ", 9),
         Str("1.00", 4), Str("):\nReferanse: ", 14), hit.reference,
         Str("\nSide: ", 7), Str("12", 2), Str("\nInnhold: ", 10)>>
       \o text \o <<Str("\n", 1), Str("---", 3)>>

\* the loop of format_chunks over the hits from the i-th on
RECURSIVE FormatLoop(_, _, _, _)
FormatLoop(hits, i, chunks, total_text_length) ==
    IF i > Len(hits) \/ total_text_length > max_total_length THEN chunks
    ELSE FormatLoop(hits, i + 1, Append(chunks, Chunk(i, hits[i])),
                    total_text_length + TextLen(Chunk(i, hits[i])))

\* "\n\n".join(chunks)
RECURSIVE JoinChunks(_)
JoinChunks(chunks) ==
    IF Len(chunks) <= 1 THEN (IF chunks = <<>> THEN <<>> ELSE Head(chunks))
    ELSE Head(chunks) \o <<Str("\n\n", 2)>> \o JoinChunks(Tail(chunks))

\* ElasticsearchClient.format_chunks
format_chunks(response) ==
    IF response.hits = <<>> THEN NoDocumentsMessage
    ELSE JoinChunks(FormatLoop(response.hits, 1, <<>>, 0))

\* cache_key(f"query:{session_id}:{sanitized_question}"), md5 taken as injective
query_cache_key(sid, question) == <<"query", sid, question>>

NoRequest ==
    [pc |-> "idle", mode |-> "none", sid |-> "A",
     question |-> <<>>, output |-> "none", analysis |-> "none",
     memory_terms |-> <<>>, standard_numbers |-> <<>>, route |-> "none",
     answer_tokens |-> <<>>, has_answer |-> FALSE, answer |-> <<>>,
     from_cache |-> FALSE, appended |-> <<>>,
     embeddings |-> "unset", query_object |-> NoQuery,
     search |-> "unset", searches |-> 0, chunks |-> <<>>, called |-> FALSE,
     generated |-> FALSE, timed_out |-> FALSE,
     answer_calls |-> 0, success |-> FALSE, error |-> FALSE]

\* sse_manager.send_event for each event of evs in turn: an event is added to
\* the session's messages while the session is active; the subscriber's stream
\* may end between two of them, which makes the session inactive
Publish(evs) ==
    IF is_active
    THEN \E k \in 0..Len(evs) :
            /\ events' = events \o SubSeq(evs, 1, k)
            /\ is_active' = (k = Len(evs))
    ELSE UNCHANGED <<events, is_active>>

\* the first two events in the wrong order (used to test C8)
StartEventsSwapped == <<Progress("validation", 10), Progress("started", 5)>>

\* the first events of process_query_with_sse
StartEvents == <<Progress("started", 5), Progress("validation", 10)>>

\* session_manager.add_to_conversation(conversation_id, question, answer) is
\* called without its user_id (TypeError); SessionManager has no
\* save_interaction (AttributeError)
persist_raises(conversation_id) == IF conversation_id THEN TRUE ELSE TRUE

PipelineSteps == {"s_start", "s_analysis", "s_extract", "s_embed", "s_search",
                  "s_stream", "s_fallback"}

\* POST /api/query/stream: validate, create the SSE session, read the memory,
\* start the processing thread
ApiQueryStream(sid, question) ==
    /\ UNCHANGED notFlow
    /\ rq.pc \in {"idle", "done"} /\ nReq < MaxRequests
    /\ QueryRequest(question).is_valid
    /\ rq' = [NoRequest EXCEPT !.pc = "s_start", !.mode = "stream", !.sid = sid,
                 !.question = QueryRequest(question).question]
    /\ events' = <<>>
    /\ is_active' = TRUE
    /\ nReq' = nReq + 1
    /\ UNCHANGED <<cache, memVars>>

\* steps 1 and 2 going on to the analysis whatever the validator says (used
\* to test C15)
StreamValidateLax ==
    /\ UNCHANGED notFlow
    /\ rq.pc = "s_start"
    /\ Publish(StartEvents \o <<Progress("validation", 100), Progress("analysis", 20)>>)
    /\ rq' = [rq EXCEPT !.pc = "s_analysis"]
    /\ UNCHANGED <<cache, nReq, memVars>>

\* process_query_with_sse, steps 1 and 2
StreamValidate ==
    /\ UNCHANGED notFlow
    /\ rq.pc = "s_start"
    /\ LET v == validate_question(rq.question)
       IN IF v.is_valid
          THEN /\ Publish(StartEvents \o
                          <<Progress("validation", 100), Progress("analysis", 20)>>)
               /\ rq' = [rq EXCEPT !.pc = "s_analysis"]
          ELSE /\ Publish(StartEvents \o <<ErrorEvent(v.error_message)>>)
               /\ rq' = [rq EXCEPT !.pc = "s_save", !.has_answer = TRUE,
                                   !.answer = v.error_message, !.error = TRUE]
    /\ UNCHANGED <<cache, nReq, memVars>>

\* process_query_with_sse, step 3: analyze_question returns output
StreamAnalysis(output) ==
    /\ UNCHANGED notFlow
    /\ rq.pc = "s_analysis"
    /\ Publish(<<Progress("analysis", 100), Progress("extraction", 30)>>)
    /\ rq' = [rq EXCEPT !.pc = "s_extract", !.output = output, !.analysis = output,
                        !.called = TRUE]
    /\ UNCHANGED <<cache, nReq, memVars>>

\* process_query_with_sse, steps 4 and 5: the extraction returns terms
StreamExtract(terms) ==
    /\ UNCHANGED notFlow
    /\ rq.pc = "s_extract"
    /\ LET r == StreamRouting(rq.analysis, terms)
       IN rq' = [rq EXCEPT !.pc = "s_embed", !.memory_terms = r.memory_terms,
                           !.standard_numbers = r.standard_numbers,
                           !.route = r.route]
    /\ Publish(<<Progress("routing", 40), Progress("extraction", 100),
                 Progress("search", 50)>>)
    /\ UNCHANGED <<cache, nReq, memVars>>

\* the request once its search has run: the analysis, the extracted terms, the
\* route and the query object are not read again
Built(l) ==
    [l EXCEPT !.output = "none", !.analysis = "none", !.memory_terms = <<>>,
              !.standard_numbers = <<>>, !.route = "none", !.query_object = NoQuery]

\* the standards a pipeline hands to the query-building phase
SanitizedStandards(l) ==
    IF l.route = "including"
    THEN validate_standard_numbers(l.standard_numbers).sanitized_input
    ELSE <<>>

\* process_query_with_sse, steps 6 to 8: get_embeddings_from_api returns a
\* vector or none, then the query object is built; an exception in the builder
\* reaches the handler at the end of the pipeline
StreamEmbed(vector) ==
    /\ UNCHANGED notFlow
    /\ rq.pc = "s_embed"
    /\ LET q == build_query_object(rq.route, SanitizedStandards(rq))
       IN IF ~vector
          THEN /\ Publish(<<ErrorEvent(EmbeddingsMessage)>>)
               /\ rq' = [Built(rq) EXCEPT !.pc = "s_save", !.has_answer = TRUE,
                                          !.answer = EmbeddingsMessage, !.error = TRUE,
                                          !.embeddings = "none"]
          ELSE IF q.raises
          THEN /\ Publish(<<Progress("search", 60), ErrorEvent(PipelineErrorMessage)>>)
               /\ rq' = [Built(rq) EXCEPT !.pc = "s_save", !.has_answer = TRUE,
                                          !.answer = PipelineErrorMessage, !.error = TRUE,
                                          !.embeddings = "vector"]
          ELSE /\ Publish(<<Progress("search", 60), Progress("search", 70),
                            Progress("routing", 100)>>)
               /\ rq' = [rq EXCEPT !.pc = "s_search", !.embeddings = "vector",
                                   !.query_object = q]
    /\ UNCHANGED <<cache, nReq, memVars>>

\* process_query_with_sse, steps 8 to 10: the search and its chunks
StreamSearch(outcome) ==
    /\ UNCHANGED notFlow
    /\ rq.pc = "s_search"
    /\ LET elasticsearch_response == search(outcome)
       IN IF elasticsearch_response.body
          THEN /\ Publish(<<Progress("search", 80), Progress("search", 100),
                            Progress("answer_generation", 85)>>)
               /\ rq' = [Built(rq) EXCEPT !.pc = "s_stream", !.search = outcome,
                             !.searches = @ + 1,
                             !.chunks = format_chunks(elasticsearch_response)]
          ELSE /\ Publish(<<ErrorEvent(SearchMessage)>>)
               /\ rq' = [Built(rq) EXCEPT !.pc = "s_save", !.has_answer = TRUE,
                                          !.answer = SearchMessage, !.error = TRUE,
                                          !.search = outcome, !.searches = @ + 1]
    /\ UNCHANGED <<cache, nReq, memVars>>

\* generate_answer_stream yields a token: send_token, then answer_tokens.append
StreamToken(token) ==
    /\ UNCHANGED notFlow
    /\ rq.pc = "s_stream" /\ Len(rq.answer_tokens) < MaxTokens
    /\ Publish(<<TokenEvent(token)>>)
    /\ rq' = [rq EXCEPT !.answer_tokens = Append(@, token)]
    /\ UNCHANGED <<cache, nReq, memVars>>

\* process_query_with_sse, step 11, reached with the answer after so many
\* calls of generate_answer
Complete(answer, answer_calls) ==
    /\ Publish(<<Progress("complete", 100), FinalAnswer(answer)>>)
    /\ rq' = [rq EXCEPT !.pc = "s_save", !.has_answer = TRUE, !.answer = answer,
                        !.answer_tokens = <<>>, !.generated = TRUE,
                        !.search = "unset", !.searches = 0, !.chunks = <<>>,
                        !.answer_calls = answer_calls, !.success = TRUE]

\* the token stream ends: answer = ''.join(answer_tokens)
StreamDone ==
    /\ UNCHANGED notFlow
    /\ rq.pc = "s_stream"
    /\ Complete(Join(rq.answer_tokens), 0)
    /\ UNCHANGED <<cache, nReq, memVars>>

\* the token stream raises: generate_answer_stream sends an error event, the
\* pipeline announces the fallback
StreamFails ==
    /\ UNCHANGED notFlow
    /\ rq.pc = "s_stream"
    /\ Publish(<<ErrorEvent(StreamFailedMessage), Progress("answer_generation", 90)>>)
    /\ rq' = [rq EXCEPT !.pc = "s_fallback"]
    /\ UNCHANGED <<cache, nReq, memVars>>

\* a fallback whose failure is left to the handler at the end of the pipeline
\* (used to test C29)
StreamFallbackRaising(ok) ==
    /\ UNCHANGED notFlow
    /\ rq.pc = "s_fallback"
    /\ IF ok THEN Complete(FallbackAnswer, 1)
       ELSE /\ Publish(<<ErrorEvent(PipelineErrorMessage)>>)
            /\ rq' = [rq EXCEPT !.pc = "s_save", !.has_answer = TRUE,
                                !.answer = TechnicalMessage, !.error = TRUE,
                                !.answer_tokens = <<>>, !.answer_calls = 1,
                                !.search = "unset", !.searches = 0, !.chunks = <<>>]
    /\ UNCHANGED <<cache, nReq, memVars>>

\* the fallback: one call of generate_answer, which returns its text, or
\* raises and leaves a message for the user as the answer
StreamFallback(ok) ==
    /\ UNCHANGED notFlow
    /\ rq.pc = "s_fallback"
    /\ Complete(IF ok THEN FallbackAnswer ELSE TechnicalMessage, 1)
    /\ UNCHANGED <<cache, nReq, memVars>>

\* a deadline that leaves the pipeline running (used to test C19)
NotCancelled(l) == [l EXCEPT !.timed_out = TRUE]

\* asyncio.wait_for at its deadline: the pipeline is cancelled where it
\* awaits, and its locals are gone
Cancelled(l) ==
    [Built(l) EXCEPT !.pc = "done", !.answer_tokens = <<>>, !.embeddings = "unset",
                     !.search = "unset", !.searches = 0, !.chunks = <<>>,
                     !.timed_out = TRUE]

\* process_async: asyncio.TimeoutError after 45 seconds
StreamTimeout ==
    /\ UNCHANGED notFlow
    /\ rq.pc \in PipelineSteps
    /\ Publish(<<ErrorEvent(TimeoutMessage)>>)
    /\ rq' = Cancelled(rq)
    /\ UNCHANGED <<cache, nReq, memVars>>

\* process_async once the pipeline has returned: should_save_memory, the
\* conversation store, then update_conversation_memory
StreamSave(conversation_id) ==
    /\ UNCHANGED notFlow
    /\ rq.pc = "s_save"
    /\ LET should_save_memory == rq.question # <<>> /\ strip(rq.question) # <<>>
                                 /\ rq.answer # <<>> /\ strip(rq.answer) # <<>>
       IN IF should_save_memory /\ ~persist_raises(conversation_id)
          THEN /\ conversation_sessions' =
                     update_conversation_memory(conversation_sessions, rq.sid,
                                                rq.question, rq.answer)
               /\ rq' = [rq EXCEPT !.pc = "done",
                            !.appended = Append(@, Exchange(rq.question, rq.answer))]
          ELSE /\ rq' = [rq EXCEPT !.pc = "done"]
               /\ UNCHANGED conversation_sessions
    /\ UNCHANGED <<events, is_active, cache, nReq, memGhost>>

\* event_stream ends (the client leaves, or the stream times out): its finally
\* block marks the session inactive
StreamEnds ==
    /\ UNCHANGED notFlow
    /\ rq.mode = "stream" /\ is_active
    /\ is_active' = FALSE
    /\ UNCHANGED <<rq, events, cache, nReq, memVars>>

\* POST /api/query: validate, read the memory, look the response up in the cache
ApiQuery(sid, question) ==
    /\ UNCHANGED notFlow
    /\ rq.pc \in {"idle", "done"} /\ nReq < MaxRequests
    /\ QueryRequest(question).is_valid
    /\ LET sanitized_question == QueryRequest(question).question
           query_cache_key_ == query_cache_key(sid, sanitized_question)
           l == [NoRequest EXCEPT !.mode = "query", !.sid = sid,
                                  !.question = sanitized_question]
       IN rq' = IF query_cache_key_ \in DOMAIN cache
                THEN [l EXCEPT !.pc = "done", !.from_cache = TRUE, !.has_answer = TRUE,
                               !.answer = cache[query_cache_key_]]
                ELSE [l EXCEPT !.pc = "p_start"]
    /\ events' = <<>>
    /\ is_active' = FALSE
    /\ nReq' = nReq + 1
    /\ UNCHANGED <<cache, memVars>>

\* process_query: input validation
QueryValidate ==
    /\ UNCHANGED notFlow
    /\ rq.pc = "p_start"
    /\ LET v == validate_question(rq.question)
       IN rq' = IF v.is_valid
                THEN [rq EXCEPT !.pc = "p_analysis"]
                ELSE [rq EXCEPT !.pc = "p_finish", !.has_answer = TRUE,
                                !.answer = v.error_message, !.error = TRUE]
    /\ UNCHANGED <<events, is_active, cache, nReq, memVars>>

\* process_query: analyze_question returns output
QueryAnalysis(output) ==
    /\ UNCHANGED notFlow
    /\ rq.pc = "p_analysis"
    /\ rq' = [rq EXCEPT !.pc = "p_extract", !.output = output, !.analysis = output,
                        !.called = TRUE]
    /\ UNCHANGED <<events, is_active, cache, nReq, memVars>>

\* process_query: the extraction returns terms; memory fallback, validation of
\* the terms and route decision
QueryExtract(terms) ==
    /\ UNCHANGED notFlow
    /\ rq.pc = "p_extract"
    /\ LET r == QueryRouting(rq.analysis, terms)
       IN rq' = [rq EXCEPT !.pc = "p_answer", !.analysis = r.analysis,
                           !.memory_terms = r.memory_terms,
                           !.standard_numbers = r.standard_numbers,
                           !.route = r.route]
    /\ UNCHANGED <<events, is_active, cache, nReq, memVars>>

\* process_query, phases 4 and 5: the embeddings (none is tolerated), then the
\* query object; an exception is turned into an apology
QueryEmbed(vector) ==
    /\ UNCHANGED notFlow
    /\ rq.pc = "p_answer"
    /\ LET q == build_query_object(rq.route, SanitizedStandards(rq))
           embeddings == IF vector THEN "vector" ELSE "none"
       IN rq' = IF q.raises
                THEN [Built(rq) EXCEPT !.pc = "p_finish", !.has_answer = TRUE,
                                       !.answer = ProcessingMessage, !.error = TRUE,
                                       !.embeddings = embeddings]
                ELSE [rq EXCEPT !.pc = "p_search", !.embeddings = embeddings,
                                !.query_object = q]
    /\ UNCHANGED <<events, is_active, cache, nReq, memVars>>

\* process_query, phase 6: the search and its chunks
QuerySearch(outcome) ==
    /\ UNCHANGED notFlow
    /\ rq.pc = "p_search"
    /\ rq' = [Built(rq) EXCEPT !.pc = "p_generate", !.search = outcome,
                               !.searches = @ + 1,
                               !.chunks = format_chunks(search(outcome))]
    /\ UNCHANGED <<events, is_active, cache, nReq, memVars>>

\* process_query, phase 7: generate_answer returns its text, or raises and the
\* exception is turned into an apology
QueryGenerate(ok) ==
    /\ UNCHANGED notFlow
    /\ rq.pc = "p_generate"
    /\ rq' = [rq EXCEPT !.pc = "p_finish", !.has_answer = TRUE,
                        !.answer = IF ok THEN DirectAnswer ELSE ProcessingMessage,
                        !.generated = ok, !.search = "unset", !.searches = 0,
                        !.chunks = <<>>, !.answer_calls = 1, !.success = ok,
                        !.error = ~ok]
    /\ UNCHANGED <<events, is_active, cache, nReq, memVars>>

\* api_query once process_query has returned: update_conversation_memory, then
\* set_cache
QueryFinish ==
    /\ UNCHANGED notFlow
    /\ rq.pc = "p_finish"
    /\ conversation_lock = NoThread
    /\ conversation_sessions' =
          update_conversation_memory(conversation_sessions, rq.sid, rq.question, rq.answer)
    /\ cache' = DictSet(cache, query_cache_key(rq.sid, rq.question), rq.answer)
    /\ rq' = [rq EXCEPT !.pc = "done",
                        !.appended = Append(@, Exchange(rq.question, rq.answer))]
    /\ UNCHANGED <<events, is_active, nReq, memGhost>>

\* the response_data api_query builds once process_query has returned, and the
\* cached one it returns otherwise: success is written as True
response_data(l) ==
    [answer |-> l.answer, success |-> TRUE, from_cache |-> l.from_cache]

\* time passes the expiry of a cached response: get_from_cache deletes it
CacheExpires(key) ==
    /\ UNCHANGED notFlow
    /\ rq.pc \in {"idle", "done"}
    /\ key \in DOMAIN cache
    /\ cache' = DictDel(cache, key)
    /\ UNCHANGED <<rq, events, is_active, nReq, memVars>>

FlowInit ==
    /\ rq = NoRequest
    /\ events = <<>>
    /\ is_active = FALSE
    /\ cache = [k \in {} |-> <<>>]
    /\ nReq = 0

FlowNext ==
    \/ \E sid \in Sessions, question \in Questions : ApiQueryStream(sid, question)
    \/ StreamValidate
    \/ \E output \in valid_routes : StreamAnalysis(output)
    \/ \E terms \in TermLists : StreamExtract(terms)
    \/ \E vector \in BOOLEAN : StreamEmbed(vector)
    \/ \E outcome \in SearchOutcomes : StreamSearch(outcome)
    \/ \E token \in TokenTexts : StreamToken(token)
    \/ StreamDone
    \/ StreamFails
    \/ \E ok \in BOOLEAN : StreamFallback(ok)
    \/ StreamTimeout
    \/ \E conversation_id \in BOOLEAN : StreamSave(conversation_id)
    \/ StreamEnds
    \/ \E sid \in Sessions, question \in Questions : ApiQuery(sid, question)
    \/ QueryValidate
    \/ \E output \in valid_routes : QueryAnalysis(output)
    \/ \E terms \in TermLists : QueryExtract(terms)
    \/ \E vector \in BOOLEAN : QueryEmbed(vector)
    \/ \E outcome \in SearchOutcomes : QuerySearch(outcome)
    \/ \E ok \in BOOLEAN : QueryGenerate(ok)
    \/ QueryFinish
    \/ \E key \in DOMAIN cache : CacheExpires(key)

(***************************************************************************)
(* The routing phase of the two pipelines on its own (SpecRoute): runs of  *)
(* process_query and process_query_with_sse on inputs drawn from bounded   *)
(* sets, each recording the route it finalised                             *)
(***************************************************************************)
RunIds == {1, 2}

\* the conversation memory handed to a run, as formatted text
RunMemories == { <<>>, <<"U", "s", "e", "r">> }

\* the questions that reach the routing phase
RunQuestions ==
    { QueryRequest(q).question :
        q \in { x \in Questions : /\ QueryRequest(x).is_valid
                                 /\ validate_question(QueryRequest(x).question).is_valid } }

NoRun == [pipeline |-> "none", question |-> <<>>, conversation_memory |-> <<>>,
          output |-> "none", terms |-> <<>>, route |-> "none",
          memory_fallback |-> FALSE]

\* process_query up to result["route_taken"]
RunProcessQuery(i, question, conversation_memory, output, terms) ==
    /\ UNCHANGED notRoute
    /\ runs[i] = NoRun
    /\ runs' = [runs EXCEPT ![i] =
                   [pipeline |-> "process_query", question |-> question,
                    conversation_memory |-> conversation_memory,
                    output |-> output, terms |-> terms,
                    route |-> QueryRouting(output, terms).route,
                    memory_fallback |-> QueryRouting(output, terms).memory_fallback]]

\* process_query_with_sse up to result["route_taken"]
RunProcessQueryWithSse(i, question, conversation_memory, output, terms) ==
    /\ UNCHANGED notRoute
    /\ runs[i] = NoRun
    /\ runs' = [runs EXCEPT ![i] =
                   [pipeline |-> "process_query_with_sse", question |-> question,
                    conversation_memory |-> conversation_memory,
                    output |-> output, terms |-> terms,
                    route |-> StreamRouting(output, terms).route,
                    memory_fallback |-> StreamRouting(output, terms).memory_fallback]]

RouteInit == runs = [i \in RunIds |-> NoRun]

RouteNext ==
    \E i \in RunIds, question \in RunQuestions, conversation_memory \in RunMemories,
       output \in valid_routes, terms \in TermLists :
        \/ RunProcessQuery(i, question, conversation_memory, output, terms)
        \/ RunProcessQueryWithSse(i, question, conversation_memory, output, terms)

\* C12 as claimed: two pipeline runs with the same question, memory, analysis
\* output and extraction output have finalised the same route
C12_Original ==
    \A i, j \in RunIds :
        (/\ runs[i] # NoRun /\ runs[j] # NoRun
         /\ runs[i].question = runs[j].question
         /\ runs[i].conversation_memory = runs[j].conversation_memory
         /\ runs[i].output = runs[j].output
         /\ runs[i].terms = runs[j].terms)
            => runs[i].route = runs[j].route

\* C26: a run whose analysis is memory and whose memory extraction is empty,
\* or leaves no term after validation, has been downgraded to the route
\* without, has memory_fallback recorded, and goes on with the textual builder
C26_Original ==
    \A i \in RunIds :
        (/\ runs[i] # NoRun /\ runs[i].output = "memory"
         /\ validate_standard_numbers(runs[i].terms).sanitized_input = <<>>)
            => /\ runs[i].route = "without"
               /\ runs[i].memory_fallback
               /\ build_query_object(runs[i].route, <<>>).builder = "textual"

(***************************************************************************)
(* The awaits of a pipeline run (SpecGather): the two coroutines handed to *)
(* asyncio.gather, then the steps the pipeline awaits one after the other  *)
(***************************************************************************)
\* the steps of a pipeline after its gather, in the order of the code
GatherSteps == <<"extraction", "embeddings", "query", "search", "answer">>

NoPipe == [optimize |-> "pending", analyze |-> "pending", gather |-> "awaited",
           running |-> {}, finished |-> <<>>]

\* a gather that hands over the first result it gets (used to test C31)
gather_first(l) ==
    IF l.optimize = "raised" THEN "raised"
    ELSE IF l.optimize = "done" \/ l.analyze = "done" THEN "returned"
    ELSE "awaited"

\* await asyncio.gather(optimization_task, analysis_task): the results once
\* both tasks are done, the exception of a task as soon as it has raised
gather(l) ==
    IF l.optimize = "raised" THEN "raised"
    ELSE IF l.optimize = "done" /\ l.analyze = "done" THEN "returned"
    ELSE "awaited"

\* optimize_semantic returns its text, or raises
OptimizeEnds(i, ok) ==
    /\ UNCHANGED notGather
    /\ pipe[i].optimize = "pending"
    /\ pipe' = [pipe EXCEPT ![i].optimize = IF ok THEN "done" ELSE "raised"]

\* analyze_question returns a route (it catches what its call raises)
AnalyzeEnds(i) ==
    /\ UNCHANGED notGather
    /\ pipe[i].analyze = "pending"
    /\ pipe' = [pipe EXCEPT ![i].analyze = "done"]

\* the pipeline resumes from its gather, with the results or in its handler
GatherResumes(i) ==
    /\ UNCHANGED notGather
    /\ pipe[i].gather = "awaited" /\ gather(pipe[i]) # "awaited"
    /\ pipe' = [pipe EXCEPT ![i].gather = gather(pipe[i])]

\* the pipeline, no step of it running, calls its next step
StepStarts(i) ==
    /\ UNCHANGED notGather
    /\ pipe[i].gather = "returned" /\ pipe[i].running = {}
    /\ Len(pipe[i].finished) < Len(GatherSteps)
    /\ pipe' = [pipe EXCEPT ![i].running = {GatherSteps[Len(pipe[i].finished) + 1]}]

\* the step the pipeline awaits returns, or raises into the handler
StepEnds(i, ok) ==
    /\ UNCHANGED notGather
    /\ \E step \in pipe[i].running :
           pipe' = [pipe EXCEPT ![i].running = {},
                                ![i].finished = IF ok THEN Append(@, step) ELSE @,
                                ![i].gather = IF ok THEN @ ELSE "raised"]

GatherInit == pipe = [i \in RunIds |-> NoPipe]

GatherNext ==
    \E i \in RunIds :
        \/ \E ok \in BOOLEAN : OptimizeEnds(i, ok)
        \/ AnalyzeEnds(i)
        \/ GatherResumes(i)
        \/ StepStarts(i)
        \/ \E ok \in BOOLEAN : StepEnds(i, ok)

\* C31: the extraction of a run has not started before its optimize_semantic
\* and its analyze_question have both completed, and the steps after the
\* gather run one at a time, each after the steps before it have finished
C31_GatherThenSequential ==
    \A i \in RunIds :
        /\ ("extraction" \in pipe[i].running \/ pipe[i].finished # <<>>)
              => (pipe[i].optimize = "done" /\ pipe[i].analyze = "done")
        /\ Cardinality(pipe[i].running) <= 1
        /\ pipe[i].finished = SubSeq(GatherSteps, 1, Len(pipe[i].finished))
        /\ \A step \in pipe[i].running : step = GatherSteps[Len(pipe[i].finished) + 1]

\* C31 witness: one run is at its search after three steps, the other has been
\* taken to its handler by optimize_semantic while analyze_question is pending
C31_Witness ==
    /\ pipe[1].running = {"search"}
    /\ pipe[1].finished = <<"extraction", "embeddings", "query">>
    /\ pipe[2].gather = "raised" /\ pipe[2].analyze = "pending"
    /\ pipe[2].finished = <<>>

(***************************************************************************)
(* The embedding client (SpecEmbed, SpecEmbedCache): the retry loop of     *)
(* get_embeddings_from_api, the internal provider and the embedding cache  *)
(***************************************************************************)
\* Embed calls of one run, attempt by attempt
MaxEmbedCalls == 2

\* texts handed to Embed, attempt by attempt
MaxEmbedTexts == 2

\* cache entries created in one run
MaxEmbedInserts == 1002

\* jumps of the clock past the TTL in one run
MaxEmbedTicks == 1

\* the clock jumps only while fewer entries than this were created
MaxTickInserts == 2

CACHE_TTL == 7200

MAX_CACHE_SIZE == 1000

max_retries == 3

\* timeouts tried in the opposite order (used to test C32)
timeouts_descending == <<60, 45, 30>>

timeouts == <<30, 45, 60>>

EmbedTexts == 1..MaxEmbedTexts

\* what one POST to the external endpoint can come to
AttemptFailures == {"timeout", "connection", "status", "invalid", "error"}

AttemptOutcomes == AttemptFailures \cup {"vector"}

\* hashlib.md5(text) and hashlib.md5("internal_" + text)
EmbedKey(prefix, text) == [prefix |-> prefix, text |-> text]

\* one item of the embedding_cache dict, which keeps its keys in insertion order
EmbeddingCacheEntry(key, t) == [key |-> key, created |-> t]

\* EmbeddingCacheEntry.is_expired
embedding_is_expired(entry, ttl, t) == t - entry.created > ttl

CacheKeys(entries) == {entries[n].key : n \in 1..Len(entries)}

\* embedding_cache[key]
CacheGet(entries, key) ==
    entries[CHOOSE n \in 1..Len(entries) : entries[n].key = key]

\* embedding_cache[key] = EmbeddingCacheEntry(...), created now
CacheSet(entries, key, t) ==
    IF key \in CacheKeys(entries)
    THEN [n \in 1..Len(entries) |->
             IF entries[n].key = key THEN EmbeddingCacheEntry(key, t) ELSE entries[n]]
    ELSE Append(entries, EmbeddingCacheEntry(key, t))

\* del embedding_cache[key]
CacheDel(entries, key) == SelectSeq(entries, LAMBDA e : e.key # key)

\* the first item of sorted(embedding_cache.items(), key=created)
Oldest(entries) ==
    CHOOSE n \in 1..Len(entries) :
        \A m \in 1..Len(entries) : entries[n].created <= entries[m].created

RECURSIVE RemoveOldest(_, _)
RemoveOldest(entries, n) ==
    IF n <= 0 \/ entries = <<>> THEN entries
    ELSE RemoveOldest(CacheDel(entries, entries[Oldest(entries)].key), n - 1)

_clean_embedding_cache(entries, t) ==
    LET kept == SelectSeq(entries, LAMBDA e : ~embedding_is_expired(e, CACHE_TTL, t))
    IN  IF Len(kept) > MAX_CACHE_SIZE
        THEN RemoveOldest(kept, Len(kept) - MAX_CACHE_SIZE)
        ELSE kept

\* the internal provider: its own cache key, no cleaning, None when it fails
_generate_internal_embeddings(entries, t, text, ok) ==
    LET key == EmbedKey("internal_", text) IN
    IF key \in CacheKeys(entries) /\ ~embedding_is_expired(CacheGet(entries, key), CACHE_TTL, t)
    THEN [cache |-> entries, vector |-> TRUE, inserted |-> FALSE]
    ELSE IF ok
    THEN [cache |-> CacheSet(entries, key, t + 1), vector |-> TRUE, inserted |-> TRUE]
    ELSE [cache |-> entries, vector |-> FALSE, inserted |-> FALSE]

\* the cache lookup that opens the external path: clean, then hit or miss
ExternalLookup(entries, t, text) ==
    LET cleaned == _clean_embedding_cache(entries, t)
        key == EmbedKey("", text)
    IN  IF key \in CacheKeys(cleaned)
        THEN IF ~embedding_is_expired(CacheGet(cleaned, key), CACHE_TTL, t)
             THEN [cache |-> cleaned, hit |-> TRUE]
             ELSE [cache |-> CacheDel(cleaned, key), hit |-> FALSE]
        ELSE [cache |-> cleaned, hit |-> FALSE]

\* one whole call: external endpoint answering at once, or down for all attempts
get_embeddings_from_api(entries, t, endpoint, outage, text, ok) ==
    IF endpoint = "INTERNAL" THEN _generate_internal_embeddings(entries, t, text, ok)
    ELSE LET looked == ExternalLookup(entries, t, text) IN
         IF looked.hit THEN [cache |-> looked.cache, vector |-> TRUE, inserted |-> FALSE]
         ELSE IF ~outage
         THEN [cache |-> CacheSet(looked.cache, EmbedKey("", text), t + 1),
               vector |-> TRUE, inserted |-> TRUE]
         ELSE _generate_internal_embeddings(looked.cache, t, text, ok)

NoEmbed ==
    [pc |-> "idle", endpoint |-> "unset", outage |-> FALSE, text |-> 0,
     attempts |-> <<>>, internal_calls |-> 0, vector |-> FALSE,
     calls |-> 0, inserts |-> 0, ticks |-> 0]

\* EMBEDDING_API_ENDPOINT of the deployment, and whether the endpoint is down
EmbedConfigure(endpoint, outage) ==
    /\ emb.endpoint = "unset"
    /\ endpoint = "INTERNAL" => ~outage
    /\ emb' = [emb EXCEPT !.endpoint = endpoint, !.outage = outage]
    /\ UNCHANGED <<embedding_cache, embed_now, notEmbed>>

\* get_embeddings_from_api up to the retry loop
EmbedBegin(text) ==
    /\ emb.endpoint # "unset"
    /\ emb.pc \in {"idle", "returned"}
    /\ emb.calls < MaxEmbedCalls
    /\ IF emb.endpoint = "INTERNAL"
       THEN /\ emb' = [emb EXCEPT !.pc = "internal", !.text = text, !.attempts = <<>>,
                                  !.internal_calls = 1, !.vector = FALSE,
                                  !.calls = @ + 1]
            /\ UNCHANGED embedding_cache
       ELSE LET looked == ExternalLookup(embedding_cache, embed_now, text) IN
            /\ embedding_cache' = looked.cache
            /\ emb' = [emb EXCEPT !.pc = IF looked.hit THEN "returned" ELSE "external",
                                  !.text = text, !.attempts = <<>>,
                                  !.internal_calls = 0, !.vector = looked.hit,
                                  !.calls = @ + 1]
    /\ UNCHANGED <<embed_now, notEmbed>>

\* one pass of the retry loop: a POST with timeouts[attempt] and what comes of it
EmbedAttempt(outcome) ==
    /\ emb.pc = "external"
    /\ Len(emb.attempts) < max_retries
    /\ emb.outage => outcome \in AttemptFailures
    /\ LET attempt == Len(emb.attempts)
           made == Append(emb.attempts,
                          [timeout |-> timeouts[attempt + 1], outcome |-> outcome])
       IN  IF outcome = "vector"
           THEN /\ embedding_cache' = CacheSet(embedding_cache, EmbedKey("", emb.text),
                                               embed_now + 1)
                /\ embed_now' = embed_now + 1
                /\ emb' = [emb EXCEPT !.pc = "returned", !.attempts = made,
                                      !.vector = TRUE, !.inserts = @ + 1]
           ELSE /\ emb' = [emb EXCEPT !.attempts = made,
                                      !.pc = IF attempt = max_retries - 1
                                             THEN "internal" ELSE "external",
                                      !.internal_calls = IF attempt = max_retries - 1
                                                         THEN @ + 1 ELSE @]
                /\ UNCHANGED <<embedding_cache, embed_now>>
    /\ UNCHANGED notEmbed

\* the internal provider returns
EmbedInternal(ok) ==
    /\ emb.pc = "internal"
    /\ LET r == _generate_internal_embeddings(embedding_cache, embed_now, emb.text, ok) IN
       /\ embedding_cache' = r.cache
       /\ embed_now' = IF r.inserted THEN embed_now + 1 ELSE embed_now
       /\ emb' = [emb EXCEPT !.pc = "returned", !.vector = r.vector,
                             !.inserts = IF r.inserted THEN @ + 1 ELSE @]
    /\ UNCHANGED notEmbed

\* more than CACHE_TTL seconds pass
EmbedTick ==
    /\ emb.ticks < MaxEmbedTicks
    /\ emb.inserts < MaxTickInserts
    /\ embed_now' = embed_now + CACHE_TTL + 1
    /\ emb' = [emb EXCEPT !.ticks = @ + 1]
    /\ UNCHANGED <<embedding_cache, notEmbed>>

\* one whole Embed call, on the latest text embedded or on a text never embedded
EmbedCall(text, ok) ==
    /\ emb.endpoint # "unset"
    /\ emb.inserts < MaxEmbedInserts
    /\ LET r == get_embeddings_from_api(embedding_cache, embed_now, emb.endpoint,
                                        emb.outage, text, ok) IN
       /\ embedding_cache' = r.cache
       /\ embed_now' = IF r.inserted THEN embed_now + 1 ELSE embed_now
       /\ emb' = [emb EXCEPT !.text = IF r.vector THEN text ELSE @,
                             !.inserts = IF r.inserted THEN @ + 1 ELSE @]
    /\ UNCHANGED notEmbed

EmbedInit ==
    /\ embedding_cache = <<>>
    /\ emb = NoEmbed
    /\ embed_now = 0

EmbedNext ==
    \/ \E endpoint \in {"external", "INTERNAL"}, outage \in BOOLEAN :
           EmbedConfigure(endpoint, outage)
    \/ \E text \in EmbedTexts : EmbedBegin(text)
    \/ \E outcome \in AttemptOutcomes : EmbedAttempt(outcome)
    \/ \E ok \in BOOLEAN : EmbedInternal(ok)
    \/ EmbedTick

EmbedCacheNext ==
    \/ \E endpoint \in {"external", "INTERNAL"}, outage \in BOOLEAN :
           EmbedConfigure(endpoint, outage)
    \/ \E text \in {emb.text + 1, IF emb.text = 0 THEN 1 ELSE emb.text}, ok \in BOOLEAN :
           EmbedCall(text, ok)
    \/ EmbedTick

\* C32: in a call that missed the cache with an external endpoint configured,
\* the attempts made so far use the timeouts 30, 45, 60 in that order, there
\* are at most three of them, none follows a valid vector, and the internal
\* provider is invoked once exactly when three attempts have failed (and not
\* at all before)
C32_RetryThenInternal ==
    (emb.endpoint = "external" /\ (emb.pc \in {"external", "internal"} \/ emb.attempts # <<>>)) =>
        /\ Len(emb.attempts) <= 3
        /\ \A n \in 1..Len(emb.attempts) :
               /\ emb.attempts[n].timeout = <<30, 45, 60>>[n]
               /\ emb.attempts[n].outcome = "vector" => n = Len(emb.attempts)
        /\ emb.internal_calls =
               IF /\ Len(emb.attempts) = 3
                  /\ \A n \in 1..3 : emb.attempts[n].outcome # "vector"
               THEN 1 ELSE 0
        /\ (emb.pc = "external") =>
               \A n \in 1..Len(emb.attempts) : emb.attempts[n].outcome # "vector"

\* three attempts failed for three different reasons, the last with a non-200
\* status, and the internal provider has answered
C32_Witness ==
    /\ emb.endpoint = "external" /\ emb.pc = "returned"
    /\ Len(emb.attempts) = 3
    /\ emb.attempts[1].outcome = "timeout"
    /\ emb.attempts[2].outcome = "invalid"
    /\ emb.attempts[3].outcome = "status"
    /\ emb.internal_calls = 1 /\ emb.vector

\* C33 (as stated): the embedding cache never holds more than 1000 entries,
\* and the entries a call removes (the others stay as they are, new ones are
\* added at the end) are expired or older than every entry it keeps
C33_Original ==
    /\ [](Len(embedding_cache) <= 1000)
    /\ [][\/ /\ Len(embedding_cache) <= Len(embedding_cache')
               /\ embedding_cache = SubSeq(embedding_cache', 1, Len(embedding_cache))
            \/ LET kept == CacheKeys(embedding_cache')
                    removed == SelectSeq(embedding_cache, LAMBDA e : e.key \notin kept)
                IN  \A n \in 1..Len(removed) :
                        \/ embedding_is_expired(removed[n], CACHE_TTL, embed_now)
                        \/ \A m \in 1..Len(embedding_cache) :
                               embedding_cache[m].key \in kept
                                   => removed[n].created <= embedding_cache[m].created]_vars

(***************************************************************************)
(* The idle branch of event_stream against the clock (SpecIdle): the       *)
(* counter of the loop, in half units, and the time spent in time.sleep    *)
(***************************************************************************)
\* events delivered to the subscriber in one run
MaxIdleEvents == 1

max_timeout == 1800

keepalive_interval == 30

\* time.sleep(0.05): sleeps in one second
SleepsPerSecond == 20

\* timeout_counter += 0.5, the counter being kept in halves
CounterStep == 1

NoIdle ==
    [pc |-> "loop", timeout_counter |-> 0, slept |-> 0, since_keepalive |-> 0,
     keepalive_gap |-> 0, keepalives |-> 0, events |-> 0]

\* one pass of the while loop with no new message: the keep-alive comment when
\* the counter is a positive multiple of the interval, the sleep, the increment
IdlePass ==
    /\ idle.pc = "loop"
    /\ idle.timeout_counter < 2 * max_timeout
    /\ LET keepalive == /\ idle.timeout_counter % (2 * keepalive_interval) = 0
                        /\ idle.timeout_counter > 0
       IN  idle' = [idle EXCEPT
                      !.keepalives = IF keepalive THEN @ + 1 ELSE @,
                      !.keepalive_gap = IF keepalive THEN idle.since_keepalive ELSE @,
                      !.since_keepalive = IF keepalive THEN 1 ELSE @ + 1,
                      !.slept = @ + 1,
                      !.timeout_counter = @ + CounterStep]
    /\ UNCHANGED notIdle

\* a message was published: the pass yields it and resets the counter
IdleDeliver ==
    /\ idle.pc = "loop"
    /\ idle.timeout_counter < 2 * max_timeout
    /\ idle.events < MaxIdleEvents
    /\ idle' = [NoIdle EXCEPT !.events = idle.events + 1]
    /\ UNCHANGED notIdle

\* the while condition fails on the counter: the stream ends
IdleTimeout ==
    /\ idle.pc = "loop"
    /\ ~(idle.timeout_counter < 2 * max_timeout)
    /\ idle' = [idle EXCEPT !.pc = "timed_out"]
    /\ UNCHANGED notIdle

IdleInit == idle = NoIdle

IdleNext == IdlePass \/ IdleDeliver \/ IdleTimeout

\* C36 (as stated): the sleeps between one keep-alive and the one before it (or
\* the last delivered event) add up to 30 seconds, the stream that timed out
\* slept 1800 seconds or more since the last delivered event, and a delivered
\* event leaves the counter at zero
C36_Original ==
    /\ idle.keepalives > 0 => idle.keepalive_gap = 30 * SleepsPerSecond
    /\ idle.pc = "timed_out" => idle.slept >= 1800 * SleepsPerSecond
    /\ idle.slept = 0 => idle.timeout_counter = 0

(***************************************************************************)
(* The pure functions of the pipelines on their own (SpecPure): each call  *)
(* takes its input from a bounded set and records what it returned         *)
(***************************************************************************)
\* length of the raw questions handed to validate_question
MaxQuestionLen == 5

\* their characters: letters of the event-handler pattern, blanks, a quote and
\* a brace
QuestionCharacters == {"o", "n", "=", " ", "\t", "'", "{"}

RawQuestions == UNION { [1..n -> QuestionCharacters] : n \in 0..MaxQuestionLen }

NoCalc == [op |-> "none"]

\* validate_question(question), for any raw question
ValidateQuestion ==
    /\ calc = NoCalc
    /\ UNCHANGED notPure
    /\ \E question \in RawQuestions :
           calc' = [op |-> "validate_question", question |-> question,
                    first |-> validate_question(question), again |-> FALSE,
                    second |-> validate_question(question)]

\* validate_question on the sanitized output of an accepted question
ValidateAgain ==
    /\ UNCHANGED notPure
    /\ calc.op = "validate_question" /\ calc.first.is_valid /\ ~calc.again
    /\ calc' = [calc EXCEPT !.again = TRUE,
                            !.second = validate_question(calc.first.sanitized_input)]

\* texts handed to the pattern and to validate_standard_numbers
AcceptedExamples ==
    {<<"N", "S", "-", "E", "N", " ", "1", "3", "1", "4", "1", "-", "8", ":", "2", "0", "0", "6">>,
     <<"E", "N", " ", "1", "9", "9", "1", "-", "1", "-", "4">>,
     <<"I", "S", "O", "/", "I", "E", "C", " ", "2", "7", "0", "0", "1", ":", "2", "0", "1", "3">>,
     <<"N", "S", " ", "1", "1", "0", "0", "1", "-", "1">>,
     <<"E", "N", " ", "I", "S", "O", " ", "1", "4", "6", "1">>}
RejectedExamples ==
    {<<"b", "a", "n", "a", "n", "a">>,
     <<"<", "s", "c", "r", "i", "p", "t", ">">>,
     <<"N", "S">>,
     <<"1", "2", "3", "4", "5">>}
StandardTexts == AcceptedExamples \cup RejectedExamples \cup {<<" ", "n", "s", " ", "3", "4", "5", "7", " ">>}

\* length of the lists handed to validate_standard_numbers
MaxStandards == 2

StandardLists == UNION { [1..n -> StandardTexts] : n \in 0..MaxStandards }

\* validate_standard_numbers(standards), for any list of texts
ValidateStandardNumbers ==
    /\ calc = NoCalc
    /\ UNCHANGED notPure
    /\ \E standards \in StandardLists :
           calc' = [op |-> "validate_standard_numbers", standards |-> standards,
                    returned |-> validate_standard_numbers(standards).sanitized_input]

\* re.match(standard_pattern, text), for any text
MatchStandard ==
    /\ calc = NoCalc
    /\ UNCHANGED notPure
    /\ \E text \in StandardTexts :
           calc' = [op |-> "match", text |-> text,
                    matched |-> MatchesStandardPattern(text)]

\* hits handed to format_chunks: a short text, a text over the limit of a
\* chunk's text, and a long reference
Hits ==
    {Hit(Str("A", 10), Str("a", 5)),
     Hit(Str("B", 10), Str("b", 2001)),
     Hit(Str("C", 100000), Str("c", 5)),
     Hit(Str("D", 10), Str("d", 311))}

\* number of hits in a response
MaxHits == 4

HitLists == UNION { [1..n -> Hits] : n \in 0..MaxHits }

\* format_chunks(elasticsearch_response), for any list of hits
FormatChunks ==
    /\ calc = NoCalc
    /\ UNCHANGED notPure
    /\ \E hits \in HitLists :
           calc' = [op |-> "format_chunks", hits |-> hits,
                    chunks |-> FormatLoop(hits, 1, <<>>, 0),
                    returned |-> format_chunks([hits |-> hits])]

max_chunk_length == 6000

\* chunks.split('\n\n'), for texts whose blank lines are those format_chunks put
RECURSIVE chunk_sections(_, _)
chunk_sections(chunks, section) ==
    IF chunks = <<>> THEN <<section>>
    ELSE IF Head(chunks) = Str("\n\n", 2)
    THEN <<section>> \o chunk_sections(Tail(chunks), <<>>)
    ELSE chunk_sections(Tail(chunks), Append(section, Head(chunks)))

\* the loop that keeps whole sections while their lengths add up to the budget
RECURSIVE truncated_chunks(_, _, _, _)
truncated_chunks(sections, k, kept, current_length) ==
    IF k > Len(sections) \/ current_length + TextLen(sections[k]) > max_chunk_length
    THEN kept
    ELSE truncated_chunks(sections, k + 1, Append(kept, sections[k]),
                          current_length + TextLen(sections[k]))

\* text[:n]
RECURSIVE TakeChars(_, _)
TakeChars(text, n) ==
    IF text = <<>> \/ n <= 0 THEN <<>>
    ELSE IF Head(text).n <= n
    THEN <<Head(text)>> \o TakeChars(Tail(text), n - Head(text).n)
    ELSE <<Str(Head(text).s, n)>>

\* the chunks generate_answer and generate_answer_stream put in the prompt
PromptChunks(chunks) ==
    IF TextLen(chunks) > max_chunk_length
    THEN LET joined == JoinChunks(truncated_chunks(chunk_sections(chunks, <<>>), 1, <<>>, 0))
         IN  IF TextLen(joined) > max_chunk_length
             THEN TakeChars(joined, max_chunk_length) \o <<Str("...", 3)>>
             ELSE joined
    ELSE chunks

\* generate_answer(question, chunks) up to its prompt, on the chunks of any hits
GenerateAnswer ==
    /\ calc = NoCalc
    /\ UNCHANGED notPure
    /\ \E hits \in HitLists \ {<<>>} :
           calc' = [op |-> "generate_answer", hits |-> hits,
                    chunks |-> format_chunks([hits |-> hits]),
                    prompt_chunks |-> PromptChunks(format_chunks([hits |-> hits]))]

\* components of the vectors handed to the query builders
MaxDims == 2

\* 0.0 and two floats that are not zero
Components == {0, 1, -1}

\* the embeddings argument: None, or a list of floats (the empty one included)
EmbeddingInputs ==
    {[given |-> FALSE, vector |-> <<>>]}
        \cup {[given |-> TRUE, vector |-> v] :
                  v \in UNION { [1..n -> Components] : n \in 0..MaxDims }}

\* the standards handed to the Filter builder
BuilderStandards == {<<>>, <<"NS 3457">>, <<"NS-EN 1990:2002", "  ">>}

\* _standard_variants, on the standards of BuilderStandards
_standard_variants(standard) ==
    CASE standard = "NS 3457" -> <<"NS 3457", "3457">>
      [] standard = "NS-EN 1990:2002" ->
             <<"NS-EN 1990", "NS-EN 1990:2002", "EN 1990:2002", "NS EN 1990:2002", "1990">>
      [] OTHER -> <<>>

\* a test that takes any list with a component for a usable vector (used to test C37)
any_component(embeddings) == embeddings.given /\ embeddings.vector # <<>>

\* embeddings and any(x != 0.0 for x in embeddings)
any_nonzero(embeddings) ==
    /\ embeddings.given /\ embeddings.vector # <<>>
    /\ \E n \in 1..Len(embeddings.vector) : embeddings.vector[n] # 0

\* the script_score wrapper the three builders write out
script_score(inner, embeddings) ==
    [script_score |->
        [query |-> inner,
         script |-> [source |-> "cosineSimilarity(params.query_vector, 'vector') + 1.0",
                     params |-> [query_vector |-> embeddings.vector]]]]

Wildcard(value) ==
    [wildcard |-> [reference_keyword |-> [value |-> value, case_insensitive |-> TRUE]]]

\* the wildcard queries of the variants of every standard number, in order
RECURSIVE wildcard_queries(_)
wildcard_queries(standard_numbers) ==
    IF standard_numbers = <<>> THEN <<>>
    ELSE LET variants == _standard_variants(Head(standard_numbers))
         IN  [n \in 1..Len(variants) |-> Wildcard(<<"*", variants[n], "*">>)]
                 \o wildcard_queries(Tail(standard_numbers))

\* qo_filter.create_query
qo_filter(standard_numbers, question, embeddings) ==
    LET inner == [bool |-> [should |-> wildcard_queries(standard_numbers),
                            minimum_should_match |-> 1]]
    IN  IF any_nonzero(embeddings)
        THEN [size |-> 40, query |-> script_score(inner, embeddings),
              _source |-> <<"text", "reference", "page">>]
        ELSE [size |-> 40, query |-> inner, _source |-> <<"text", "reference", "page">>]

\* qo_textual.create_query
qo_textual(text, embeddings) ==
    LET inner == [multi_match |-> [query |-> text, fields |-> <<"text^2", "reference">>]]
    IN  IF any_nonzero(embeddings)
        THEN [size |-> 80, query |-> script_score(inner, embeddings),
              _source |-> <<"text", "reference", "page">>]
        ELSE [size |-> 80, query |-> inner, _source |-> <<"text", "reference", "page">>]

\* qo_personal.create_query
qo_personal(question, embeddings) ==
    LET inner == [bool |-> [filter |-> Wildcard(<<"*", "Personalhåndbok", "*">>)]]
    IN  IF any_nonzero(embeddings)
        THEN [size |-> 80, query |-> script_score(inner, embeddings),
              _source |-> <<"text", "reference", "page">>]
        ELSE [size |-> 80, query |-> inner, _source |-> <<"text", "reference", "page">>]

create_query(builder, standard_numbers, text, embeddings) ==
    CASE builder = "filter" -> qo_filter(standard_numbers, text, embeddings)
      [] builder = "textual" -> qo_textual(text, embeddings)
      [] OTHER -> qo_personal(text, embeddings)

\* one of the three builders on any embeddings, and the same builder on the same
\* input without embeddings
CreateQuery ==
    /\ calc = NoCalc
    /\ UNCHANGED notPure
    /\ \E builder \in {"filter", "textual", "personal"}, embeddings \in EmbeddingInputs,
          standard_numbers \in BuilderStandards :
           /\ builder # "filter" => standard_numbers = <<>>
           /\ calc' = [op |-> "create_query", builder |-> builder,
                       standard_numbers |-> standard_numbers, embeddings |-> embeddings,
                       query_object |-> create_query(builder, standard_numbers, "hva er kravet",
                                                     embeddings),
                       plain |-> create_query(builder, standard_numbers, "hva er kravet",
                                              [given |-> FALSE, vector |-> <<>>])]

\* str.lower()
lower(text) ==
    [i \in 1..Len(text) |->
        IF \E k \in 1..Len(UpperCase) : UpperCase[k] = text[i]
        THEN LowerCase[CHOOSE k \in 1..Len(UpperCase) : UpperCase[k] = text[i]]
        ELSE text[i]]

\* str.strip(chars)
RECURSIVE strip_chars(_, _)
strip_chars(text, chars) ==
    IF text # <<>> /\ Head(text) \in chars THEN strip_chars(Tail(text), chars)
    ELSE IF text # <<>> /\ text[Len(text)] \in chars
    THEN strip_chars(SubSeq(text, 1, Len(text) - 1), chars)
    ELSE text

\* the characters analyze_question strips from both ends of the output (all
\* but the backquote, which no output of AnalysisOutputs holds)
AnalysisStripCharacters ==
    {"\"", "'", "(", ")", "[", "]", "{", "}", ".", ",", "!", "?", ";", ":",
     " ", "\n", "\r", "\t"}

\* valid_routes, spelled in characters
valid_route_texts ==
    {<<"i", "n", "c", "l", "u", "d", "i", "n", "g">>,
     <<"w", "i", "t", "h", "o", "u", "t">>,
     <<"p", "e", "r", "s", "o", "n", "a", "l">>,
     <<"m", "e", "m", "o", "r", "y">>}

\* what the model answers to the analysis prompt, before it is cleaned
AnalysisWords ==
    {<<"I", "n", "c", "l", "u", "d", "i", "n", "g">>,
     <<"w", "i", "t", "h", "o", "u", "t">>,
     <<"P", "E", "R", "S", "O", "N", "A", "L">>,
     <<"m", "e", "m", "o", "r", "y">>,
     <<"i", "n", "c", "l", "u", "d", "i", "n">>,
     <<"w", "i", "t", "h", " ", "o", "u", "t">>,
     <<"t", "e", "x", "t", "u", "a", "l">>,
     <<>>}

AnalysisOutputs ==
    {before \o word \o after :
        before \in {<<>>, <<" ">>, <<"\"">>, <<"-">>},
        word \in AnalysisWords,
        after \in {<<>>, <<".">>, <<"\n">>, <<"\"", " ">>, <<" ", "x">>}}

\* an analysis that returns the cleaned output as it is (used to test C38)
analyze_question_unchecked(raised, llm_output) ==
    IF raised THEN <<"w", "i", "t", "h", "o", "u", "t">>
    ELSE strip_chars(strip(lower(llm_output)), AnalysisStripCharacters)

\* PromptManager.analyze_question: the LLM call raised, or returned llm_output
analyze_question(raised, llm_output) ==
    IF raised THEN <<"w", "i", "t", "h", "o", "u", "t">>
    ELSE LET output == strip_chars(strip(lower(llm_output)), AnalysisStripCharacters)
         IN  IF output \notin valid_route_texts THEN <<"w", "i", "t", "h", "o", "u", "t">> ELSE output

\* analyze_question on any answer of the model, or on a call that raises
AnalyzeQuestion ==
    /\ calc = NoCalc
    /\ UNCHANGED notPure
    /\ \E raised \in BOOLEAN, llm_output \in AnalysisOutputs :
           /\ raised => llm_output = <<>>
           /\ calc' = [op |-> "analyze_question", raised |-> raised,
                       llm_output |-> llm_output,
                       returned |-> analyze_question(raised, llm_output)]

PureInit == calc = NoCalc

PureNext ==
    \/ ValidateQuestion
    \/ ValidateAgain
    \/ ValidateStandardNumbers
    \/ MatchStandard
    \/ FormatChunks
    \/ GenerateAnswer
    \/ CreateQuery
    \/ AnalyzeQuestion

\* C22: validate_question is idempotent on its own output: the sanitized
\* output of an accepted question is accepted again and returned unchanged
C22_ValidateIdempotent ==
    (calc.op = "validate_question" /\ calc.again) =>
        /\ calc.second.is_valid
        /\ calc.second.sanitized_input = calc.first.sanitized_input

\* C22 witness: a question with a run of blanks inside and a blank at its end
\* was accepted, sanitized into another text, and that text validated again
C22_Witness ==
    /\ calc.op = "validate_question" /\ calc.again
    /\ calc.question = <<"o", " ", "\t", "n", " ">>
    /\ calc.first.sanitized_input = <<"o", " ", "n">>

\* s without the later occurrences of its elements
RECURSIVE FirstOccurrences(_)
FirstOccurrences(s) ==
    IF s = <<>> THEN <<>>
    ELSE LET init == FirstOccurrences(SubSeq(s, 1, Len(s) - 1))
         IN IF \E i \in 1..Len(init) : init[i] = s[Len(s)]
            THEN init ELSE Append(init, s[Len(s)])

\* C23: validate_standard_numbers returns the upper-cased inputs that match the
\* pattern, with duplicates removed and the order of first occurrence preserved
C23_Original ==
    calc.op = "validate_standard_numbers" =>
        LET matching == SelectSeq(calc.standards,
                            LAMBDA std : MatchesStandardPattern(upper(strip(std))))
            upper_cased == IF matching = <<>> THEN <<>>
                           ELSE [i \in 1..Len(matching) |-> upper(strip(matching[i]))]
        IN calc.returned = FirstOccurrences(upper_cased)

\* C24: the pattern accepts the five examples of standard numbers and rejects
\* the four other texts
C24_Original ==
    calc.op = "match" =>
        /\ calc.text \in AcceptedExamples => calc.matched
        /\ calc.text \in RejectedExamples => ~calc.matched

\* C25: format_chunks returns exactly "Ingen relevante dokumenter funnet."
\* when there are no hits; otherwise its chunks are those of the hits in the
\* order of the engine, every chunk ends with "---", and the returned text is
\* never longer than 200000 characters
C25_Original ==
    calc.op = "format_chunks" =>
        /\ calc.hits = <<>> =>
               calc.returned = <<Str("Ingen relevante dokumenter funnet.", 34)>>
        /\ calc.hits # <<>> =>
               /\ Len(calc.chunks) <= Len(calc.hits)
               /\ \A k \in 1..Len(calc.chunks) :
                     /\ calc.chunks[k] = Chunk(k, calc.hits[k])
                     /\ calc.chunks[k][Len(calc.chunks[k])] = Str("---", 3)
               /\ calc.returned = JoinChunks(calc.chunks)
        /\ TextLen(calc.returned) <= 200000

\* C37: a builder returns its inner query wrapped in script_score, with the
\* cosine-similarity script on the vector, when the embeddings are given and
\* have a component that is not zero, and the inner query alone otherwise; size
\* and _source are those of the query without embeddings in both cases
C37_ScriptScoreIffNonZero ==
    calc.op = "create_query" =>
        LET vector == calc.embeddings.vector
            usable == /\ calc.embeddings.given
                      /\ \E n \in 1..Len(vector) : vector[n] # 0
            query == calc.query_object.query
        IN  /\ usable <=> DOMAIN query = {"script_score"}
            /\ usable =>
                   /\ query.script_score.query = calc.plain.query
                   /\ query.script_score.script.source
                          = "cosineSimilarity(params.query_vector, 'vector') + 1.0"
                   /\ query.script_score.script.params.query_vector = vector
            /\ ~usable => query = calc.plain.query
            /\ "script_score" \notin DOMAIN calc.plain.query
            /\ calc.query_object.size = calc.plain.size
            /\ calc.query_object._source = calc.plain._source

\* the Filter builder on two standards, one of them blank, and a vector whose
\* only non-zero component is the last
C37_Witness ==
    /\ calc.op = "create_query" /\ calc.builder = "filter"
    /\ Len(calc.standard_numbers) = 2
    /\ calc.embeddings.vector = <<0, -1>>
    /\ DOMAIN calc.query_object.query = {"script_score"}
    /\ Len(calc.query_object.query.script_score.query.bool.should) = 5

\* C38: analyze_question returns one of including, without, personal, memory:
\* the output of the model when, in lower case and without the whitespace and
\* punctuation around it, it is one of the four, and without for every other
\* output and for a call that raised
C38_AnalysisIsARoute ==
    calc.op = "analyze_question" =>
        LET cleaned == strip_chars(strip(lower(calc.llm_output)), AnalysisStripCharacters)
            routes == {<<"i", "n", "c", "l", "u", "d", "i", "n", "g">>, <<"w", "i", "t", "h", "o", "u", "t">>,
                       <<"p", "e", "r", "s", "o", "n", "a", "l">>, <<"m", "e", "m", "o", "r", "y">>}
        IN  /\ calc.returned \in routes
            /\ calc.raised => calc.returned = <<"w", "i", "t", "h", "o", "u", "t">>
            /\ (~calc.raised /\ cleaned \notin routes) => calc.returned = <<"w", "i", "t", "h", "o", "u", "t">>
            /\ (~calc.raised /\ cleaned \in routes) => calc.returned = cleaned

\* the model answered "textual." and the analysis came out as without
C38_Witness ==
    /\ calc.op = "analyze_question" /\ ~calc.raised
    /\ calc.llm_output = <<"\"", "t", "e", "x", "t", "u", "a", "l", ".">>
    /\ calc.returned = <<"w", "i", "t", "h", "o", "u", "t">>

\* C35 (as stated): chunks longer than the budget of 6000 characters reach the
\* prompt as the first k of their sections, joined as they were, for some k, and
\* within the budget
C35_Original ==
    (calc.op = "generate_answer" /\ TextLen(calc.chunks) > 6000) =>
        /\ \E k \in 0..Len(chunk_sections(calc.chunks, <<>>)) :
               calc.prompt_chunks =
                   JoinChunks(SubSeq(chunk_sections(calc.chunks, <<>>), 1, k))
        /\ TextLen(calc.prompt_chunks) <= 6000

(***************************************************************************)
(* Claims about the handlers and the pipelines, checked under SpecFlow     *)
(***************************************************************************)
IsProgress(e) == e.type = "progress"
IsToken(e) == e.type = "token"

\* a Progress event that marks a stage other than the last as completed
IsStageCompleted(e) == e.type = "progress" /\ e.progress = 100 /\ e.stage # "complete"
OpensStage(e) == e.type = "progress" /\ ~IsStageCompleted(e)

Increasing(p) == \A i \in 1..(Len(p) - 1) : p[i].progress < p[i + 1].progress

FinalAnswerPublished == \E i \in 1..Len(events) : events[i].type = "final_answer"

\* C3 as claimed: a finished request, streaming or not, with a non-empty
\* question and an answer has appended exactly the exchange (question, answer)
\* to the memory of its session
C3_Original ==
    (rq.pc = "done" /\ strip(rq.question) # <<>> /\ rq.has_answer /\ strip(rq.answer) # <<>>)
        => /\ rq.appended = <<Exchange(rq.question, rq.answer)>>
           /\ rq.sid \in DOMAIN conversation_sessions
           /\ conversation_sessions[rq.sid] # <<>>
           /\ conversation_sessions[rq.sid][Len(conversation_sessions[rq.sid])]
                 = Exchange(rq.question, rq.answer)

C9_Original ==
    \A i \in 1..Len(events) :
        events[i].type = "final_answer" =>
            LET tokens == SelectSeq(SubSeq(events, 1, i - 1), IsToken)
            IN tokens # <<>> =>
                  events[i].text = Join([j \in 1..Len(tokens) |-> tokens[j].text])

\* C10 as claimed: in both pipelines the route is memory exactly when the
\* analysis returned memory and the list of memory terms is not empty
C10_Original ==
    rq.route # "none" =>
        (rq.route = "memory" <=> (rq.output = "memory" /\ rq.memory_terms # <<>>))

\* C11 as claimed: the route is including only when the analysis returned
\* including and the validated list of standards is not empty; the filter
\* builder is never invoked with an empty validated list; a request whose
\* analysis returned including and whose validated list is empty is built with
\* the textual builder on the route without
C11_Original ==
    LET validated == validate_standard_numbers(rq.standard_numbers).sanitized_input
    IN /\ rq.route = "including" => (rq.output = "including" /\ validated # <<>>)
       /\ rq.query_object.builder = "filter" => rq.query_object.standards # <<>>
       /\ (rq.query_object.builder # "none" /\ rq.output = "including" /\ validated = <<>>)
             => (rq.route = "without" /\ rq.query_object.builder = "textual")

\* a request whose pipeline has returned
Returned == rq.pc \in {"s_save", "p_finish", "done"}

\* C13 as claimed: a request, streaming or not, whose embedding call returned
\* no vector and whose pipeline has returned without an exception in another
\* phase went through answer generation and published no Error event
C13_Original ==
    (/\ rq.embeddings = "none" /\ Returned
     /\ rq.answer \notin {ProcessingMessage, PipelineErrorMessage})
        => /\ rq.generated
           /\ \A i \in 1..Len(events) : events[i].type # "error"

\* C14: when the search request of a pipeline, streaming or not, has met a
\* transport error or a non-success status, the search has returned an empty
\* response (total 0, no hits), and the pipeline is at its answer generation
\* with chunks equal to the literal "Ingen relevante dokumenter funnet."
C14_EmptySearchResponse ==
    rq.search = "error" =>
        /\ search(rq.search).total = 0 /\ search(rq.search).hits = <<>>
        /\ rq.pc \in {"s_stream", "s_fallback", "p_generate"}
        /\ rq.chunks = NoDocumentsMessage

\* C14 witness: after a failed search the streaming pipeline is generating its
\* answer from the literal and has published a token
C14_Witness ==
    /\ rq.search = "error" /\ rq.pc = "s_stream"
    /\ rq.chunks = NoDocumentsMessage
    /\ rq.answer_tokens # <<>>
    /\ events # <<>> /\ events[Len(events)].type = "token"

\* C15: a request, streaming or not, that has its answer and whose question
\* fails validate_question has the validator's message as its answer and has
\* made no LLM, embedding or search call; on the streaming path the events
\* published are the two opening Progress events and then the Error event
\* with that message, all of them if the session is still active
C15_ValidationFailureIsTerminal ==
    LET v == validate_question(rq.question)
        expected == StartEvents \o <<ErrorEvent(v.error_message)>>
    IN (rq.has_answer /\ ~v.is_valid) =>
          /\ rq.answer = v.error_message
          /\ ~rq.called /\ rq.embeddings = "unset" /\ rq.search = "unset"
          /\ ~rq.generated
          /\ rq.mode = "stream" =>
                /\ Len(events) <= Len(expected)
                /\ events = SubSeq(expected, 1, Len(events))
                /\ is_active => events = expected

\* C15 witness: a streaming request whose question holds a quote has ended
\* with the validator's message, its Error event published to a live session
C15_Witness ==
    /\ rq.mode = "stream" /\ rq.pc = "done" /\ is_active
    /\ ~validate_question(rq.question).is_valid
    /\ rq.answer = ValidationMessage
    /\ events[Len(events)] = ErrorEvent(ValidationMessage)

\* C16 as claimed: once the producer of a streaming request has returned
\* after publishing its FinalAnswer or its Error, the session is inactive
C16_Original ==
    (/\ rq.mode = "stream" /\ rq.pc \in {"s_save", "done"}
     /\ events # <<>>
     /\ events[Len(events)].type \in {"final_answer", "error"})
        => ~is_active

\* C39 (as stated): a POST /api/query whose process_query returned an error
\* result is answered without success = true and leaves no entry in the
\* response cache under its key, and no request is served an error answer from
\* the cache
C39_Original ==
    /\ (rq.mode = "query" /\ rq.pc = "done" /\ rq.error /\ ~rq.from_cache)
           => /\ ~response_data(rq).success
              /\ query_cache_key(rq.sid, rq.question) \notin DOMAIN cache
    /\ (rq.mode = "query" /\ rq.pc = "done" /\ rq.from_cache)
           => rq.answer \notin {ValidationMessage, ProcessingMessage, PipelineErrorMessage}

\* the subscriber of the streaming request has disconnected
Disconnected == rq.mode = "stream" /\ ~is_active

\* C17 as claimed: after the subscriber of a streaming request's session has
\* disconnected no event is appended to the session while the request goes
\* on, and the producer, once its pipeline has returned an answer, has
\* appended the exchange (question, answer) to the memory of its session
C17_Original ==
    /\ [][(Disconnected /\ nReq' = nReq) => events' = events]_vars
    /\ []((/\ Disconnected /\ rq.pc = "done"
           /\ rq.has_answer /\ strip(rq.answer) # <<>>)
             => (/\ rq.appended = <<Exchange(rq.question, rq.answer)>>
                 /\ rq.sid \in DOMAIN conversation_sessions))

C20_Original ==
    \A i \in 1..Len(events) :
        events[i] = Progress("complete", 100) =>
            /\ \E j \in 1..(i - 1) : events[j].type = "final_answer"
            /\ \A j \in (i + 1)..Len(events) : events[j].type # "final_answer"

\* the build step of a request is taken: the pipeline leaves the phase that
\* ends with it, having its vector where the pipeline needs one, and the
\* request has not been cancelled
BuildStep ==
    /\ rq.pc \in {"s_embed", "p_answer"} /\ rq'.pc # rq.pc /\ nReq' = nReq
    /\ ~rq'.timed_out
    /\ rq.mode = "stream" => rq'.embeddings = "vector"

\* the builder of each route
RouteBuilder(route) ==
    CASE route = "memory" -> "memory"
      [] route = "including" -> "filter"
      [] route = "personal" -> "personal"
      [] OTHER -> "textual"

\* C27 as claimed: on each of the four routes the build step ends with the
\* query object of the route's builder and the pipeline at its search, never
\* with an error
C27_Original ==
    [][BuildStep =>
          /\ rq'.pc \in {"s_search", "p_search"}
          /\ ~rq'.query_object.raises
          /\ rq'.query_object.builder = RouteBuilder(rq.route)]_vars

\* the search phase of a request is taken and has met the given outcome
SearchStep(outcome) ==
    /\ rq.pc \in {"s_search", "p_search"} /\ rq'.pc # rq.pc /\ nReq' = nReq
    /\ rq'.search = outcome

\* C28 as claimed: on the route including a first search without hits is
\* followed by exactly one more search, and no request makes more than two
\* searches
C28_Original ==
    /\ [][(SearchStep("no_hits") /\ rq.route = "including") => rq'.searches = 2]_vars
    /\ [](rq.searches <= 2)

\* C29: a streaming request whose answer stream has failed makes exactly one
\* call of generate_answer: none before the fallback, one once it has the
\* answer of the fallback; when that call fails too, the result has the
\* message for the user as its answer, success and no error, and the session,
\* while it is active, ends with the FinalAnswer event of that message
C29_FallbackOnce ==
    rq.mode = "stream" =>
        /\ rq.pc = "s_fallback" => rq.answer_calls = 0
        /\ (rq.has_answer /\ rq.answer \in {FallbackAnswer, TechnicalMessage})
              => rq.answer_calls = 1
        /\ (rq.has_answer /\ rq.answer = TechnicalMessage) =>
              /\ rq.success /\ ~rq.error
              /\ is_active => /\ events # <<>>
                              /\ events[Len(events)] = FinalAnswer(TechnicalMessage)

\* C29 witness: the stream and the fallback have both failed, and the active
\* session ends with the progress of the fallback, the Complete progress and
\* the FinalAnswer of the message
C29_Witness ==
    /\ rq.mode = "stream" /\ rq.pc = "s_save" /\ is_active
    /\ rq.answer = TechnicalMessage /\ rq.answer_calls = 1 /\ rq.success /\ ~rq.error
    /\ Len(events) >= 3
    /\ events[Len(events)] = FinalAnswer(TechnicalMessage)
    /\ events[Len(events) - 2] = Progress("answer_generation", 90)

\* C30 as claimed: the session of a streaming request holds at most one
\* terminal event (FinalAnswer or Error), and no event after it
C30_Original ==
    rq.mode = "stream" =>
        \A i \in 1..Len(events) :
            events[i].type \in {"final_answer", "error"} => i = Len(events)

(***************************************************************************)
(* The prompt-response cache of PromptManager (prompt_manager.py)          *)
(***************************************************************************)
MaxCalls == 3
MaxTicks == 3

Tasks == {1, 2}

\* the prompt types whose calls go through the cache
PromptTypes == {"extractStandard", "extractFromMemory"}

\* PROMPT_CONFIGS[prompt_type].ttl_seconds, with the fallback to "answer"
ttl_seconds(prompt_type) ==
    CASE prompt_type = "analysis" -> 3600
      [] prompt_type \in {"extractStandard", "optimizeSemantic", "optimizeTextual"} -> 1800
      [] prompt_type = "extractFromMemory" -> 900
      [] OTHER -> 900

\* the clock advances in steps of the shortest TTL
TickSeconds == ttl_seconds("extractFromMemory")

\* conversation memories of the requests of two sessions
Memories == {"mA", "mB"}
Utterance == "q"
LLMOutputs == {"v1", "v2"}

EmptyKwargs == [k \in {} |-> ""]

\* dict.get(k, default)
DictGet(d, k, default) == IF k \in DOMAIN d THEN d[k] ELSE default

\* create_prompt_input(last_utterance, **kwargs)
create_prompt_input(last_utterance, kwargs) ==
    [last_utterance |-> last_utterance,
     chunks |-> DictGet(kwargs, "chunks", ""),
     conversation_memory |-> DictGet(kwargs, "conversation_memory", "")]

\* self.prompts[name].invoke(prompt_input).text: the template of that name with
\* its variables substituted
render(name, prompt_input) ==
    <<name, prompt_input.last_utterance, prompt_input.chunks,
      prompt_input.conversation_memory>>

\* the prompt a method of PromptManager renders: extract_standard_numbers hands
\* the question alone to create_prompt_input, the others the memory too
prompt_text(prompt_type, question, conversation_memory) ==
    render(prompt_type,
           create_prompt_input(question,
               IF prompt_type = "extractStandard" THEN EmptyKwargs
               ELSE [k \in {"conversation_memory"} |-> conversation_memory]))

\* str(messages) for the system message of the prompt type and the user prompt
content_of(prompt_type, question, conversation_memory) ==
    << [role |-> "system", content |-> <<"system_message", prompt_type>>],
       [role |-> "user", content |-> prompt_text(prompt_type, question, conversation_memory)] >>

\* hashlib.md5(x).hexdigest(), taken as free of collisions
Md5(x) == <<"md5", x>>

\* hashlib.md5(memory).hexdigest()[:8]: 32 bits, which two memories may share
ShortHash(conversation_memory) == IF conversation_memory \in {"mA", "mB"} THEN "h1" ELSE "h2"

\* a key derived from the prompt type and the kwargs alone (used to test C5)
key_without_content(prompt_type, content, kwargs) ==
    Md5([type |-> prompt_type, kwargs |-> kwargs])

\* PromptManager._generate_cache_key(prompt_type, content, **kwargs)
generate_cache_key(prompt_type, content, kwargs) ==
    LET conversation_memory == DictGet(kwargs, "conversation_memory", "")
        nontrivial == conversation_memory # "" /\ conversation_memory # "0"
    IN Md5([type |-> prompt_type, content |-> content, kwargs |-> kwargs,
            memory_hash |-> IF nontrivial THEN <<ShortHash(conversation_memory)>> ELSE <<>>,
            memory_context |-> (prompt_type = "answer" /\ nontrivial)])

\* an entry that expires as soon as its age reaches the TTL (used to test C6)
is_expired_at_ttl(entry, ttl, t) == t - entry.created >= ttl

\* CacheEntry.is_expired(ttl_seconds) at time t
is_expired(entry, ttl, t) == t - entry.created > ttl

NoCall == [pc |-> "idle", key |-> <<>>, type |-> "", memory |-> ""]
NotServed == [outcome |-> "none", key |-> <<>>, type |-> "", memory |-> "", value |-> ""]

\* _call_openai_optimized(prompt_type, messages) up to its LLM request: the key,
\* then _get_from_cache
CallBegin(t, prompt_type, conversation_memory) ==
    /\ UNCHANGED notCache
    /\ call[t].pc = "idle" /\ nCalls < MaxCalls
    /\ nCalls' = nCalls + 1
    /\ LET cache_key_ == generate_cache_key(prompt_type,
                            content_of(prompt_type, Utterance, conversation_memory),
                            EmptyKwargs)
           waiting == [pc |-> "llm", key |-> cache_key_, type |-> prompt_type,
                       memory |-> conversation_memory]
           looked == [outcome |-> "miss", key |-> cache_key_, type |-> prompt_type,
                      memory |-> conversation_memory, value |-> ""]
       IN IF cache_key_ \in DOMAIN prompt_cache
          THEN IF is_expired(prompt_cache[cache_key_], ttl_seconds(prompt_type), now)
               THEN /\ prompt_cache' = DictDel(prompt_cache, cache_key_)
                    /\ cache_stats' = [cache_stats EXCEPT !.expired = @ + 1]
                    /\ call' = [call EXCEPT ![t] = waiting]
                    /\ llm_calls' = llm_calls + 1
                    /\ served' = looked
               ELSE /\ prompt_cache' = [prompt_cache EXCEPT ![cache_key_].hits = @ + 1]
                    /\ cache_stats' = [cache_stats EXCEPT !.hits = @ + 1]
                    /\ served' = [looked EXCEPT !.outcome = "hit",
                                                !.value = prompt_cache[cache_key_].value]
                    /\ UNCHANGED <<call, llm_calls>>
          ELSE /\ cache_stats' = [cache_stats EXCEPT !.misses = @ + 1]
               /\ call' = [call EXCEPT ![t] = waiting]
               /\ llm_calls' = llm_calls + 1
               /\ served' = looked
               /\ UNCHANGED prompt_cache
    /\ UNCHANGED <<now, last_write>>

\* the LLM answers: _set_cache(cache_key, result), return result
CallReturns(t, result) ==
    /\ UNCHANGED notCache
    /\ call[t].pc = "llm"
    /\ prompt_cache' = DictSet(prompt_cache, call[t].key,
                               [value |-> result, created |-> now, hits |-> 0])
    /\ last_write' = DictSet(last_write, call[t].key,
                             [value |-> result, created |-> now, memory |-> call[t].memory])
    /\ call' = [call EXCEPT ![t] = NoCall]
    /\ served' = NotServed
    /\ UNCHANGED <<cache_stats, now, llm_calls, nCalls>>

\* the LLM request fails: the exception is raised again, nothing is stored
CallFails(t) ==
    /\ UNCHANGED notCache
    /\ call[t].pc = "llm"
    /\ call' = [call EXCEPT ![t] = NoCall]
    /\ served' = NotServed
    /\ UNCHANGED <<prompt_cache, cache_stats, now, llm_calls, last_write, nCalls>>

\* time passes
Tick ==
    /\ UNCHANGED notCache
    /\ now < MaxTicks * TickSeconds
    /\ now' = now + TickSeconds
    /\ served' = NotServed
    /\ UNCHANGED <<prompt_cache, cache_stats, call, llm_calls, last_write, nCalls>>

CacheInit ==
    /\ prompt_cache = [k \in {} |-> <<>>]
    /\ cache_stats = [hits |-> 0, misses |-> 0, expired |-> 0]
    /\ now = 0
    /\ call = [t \in Tasks |-> NoCall]
    /\ llm_calls = 0
    /\ last_write = [k \in {} |-> <<>>]
    /\ served = NotServed
    /\ nCalls = 0

CacheNext ==
    \/ \E t \in Tasks, prompt_type \in PromptTypes, conversation_memory \in Memories :
          CallBegin(t, prompt_type, conversation_memory)
    \/ \E t \in Tasks, result \in LLMOutputs : CallReturns(t, result)
    \/ \E t \in Tasks : CallFails(t)
    \/ Tick

(***************************************************************************)
(* Claims about the prompt cache, checked under SpecCache                  *)
(***************************************************************************)
\* the prompt types whose calls are handed the conversation memory
TakesMemory(prompt_type) == prompt_type # "extractStandard"

C34_Original ==
    [][\A t \in Tasks :
          (/\ call[t].pc = "idle" /\ call'[t].pc = "llm"
           /\ call'[t].key \in DOMAIN prompt_cache
           /\ is_expired(prompt_cache[call'[t].key], ttl_seconds(call'[t].type), now))
          => /\ call'[t].key \notin DOMAIN prompt_cache'
             /\ served'.outcome = "miss"
             /\ cache_stats'.misses = cache_stats.misses + 1]_vars

\* C6: a call whose key was last stored by a successful LLM call no longer ago
\* than the TTL of its prompt type is served that stored value from the cache
\* (and only such a call is served from the cache); a call served from the
\* cache sends no LLM request; the cache holds nothing but what successful LLM
\* calls stored, so a failed call leaves no entry
C6_ServedFromCache ==
    /\ served.outcome # "none" =>
          LET fresh == /\ served.key \in DOMAIN last_write
                       /\ now - last_write[served.key].created <= ttl_seconds(served.type)
          IN /\ fresh => (served.outcome = "hit"
                          /\ served.value = last_write[served.key].value)
             /\ served.outcome = "hit" => fresh
    /\ llm_calls = cache_stats.misses + cache_stats.expired
    /\ cache_stats.hits + llm_calls = nCalls
    /\ \A k \in DOMAIN prompt_cache :
          /\ k \in DOMAIN last_write
          /\ prompt_cache[k].value = last_write[k].value
          /\ prompt_cache[k].created = last_write[k].created

\* C6 witness: a call is served from the cache exactly one TTL after the entry
\* was stored
C6_Witness ==
    /\ served.outcome = "hit"
    /\ now - last_write[served.key].created = ttl_seconds(served.type)

(***************************************************************************)
(* The SSE progress bus of sse_manager.py: the sessions, the publishers    *)
(* and the event_stream generator of the one subscriber                    *)
(***************************************************************************)
\* SSE session objects constructed in a run
MaxSessions == 2

\* events published in a run
MaxEvents == 2

\* connections of the subscriber in a run
MaxConnects == 2

\* max_timeout of event_stream, counted in sleeps of the idle subscriber (one
\* sleep of the model stands for a run of sleeps of the code)
MaxIdleSleeps == 1

\* the timeout of SSESession.is_expired, counted in the same sleeps
ExpiryTicks == 1

StreamIds == {"s1", "s2"}

\* the payloads send_event is called with
EventData == {"progress", "token"}

\* sessions.get(session_id) of a missing id: None
NoSession == 0

\* SSESession.__init__; idle is the time since last_activity
SSESession == [messages |-> <<>>, is_active |-> TRUE, idle |-> 0]

\* SSESession.add_message
add_message(session, data) ==
    [session EXCEPT !.messages = Append(@, data), !.idle = 0]

\* SSESession.is_expired
session_is_expired(session) == session.idle > ExpiryTicks

\* SSEManager.get_session: the object registered under session_id
get_session(d, session_id) == DictGet(d, session_id, NoSession)

\* a create_session that leaves a registered session in place (used to test
\* C18)
create_session_keeping(d, session_id, o) ==
    IF session_id \in DOMAIN d THEN d ELSE DictSet(d, session_id, o)

\* SSEManager.create_session: a fresh object replaces the one registered
\* under session_id; o is the new object
create_session(d, session_id, o) == DictSet(DictDel(d, session_id), session_id, o)

\* SSEManager.cleanup_expired_sessions, past its interval
cleanup_expired_sessions(d, h) ==
    [x \in {y \in DOMAIN d : ~session_is_expired(h[d[y]])} |-> d[x]]

\* the first frame of event_stream
Connected(session_id) == <<"connected", session_id>>

\* a subscriber that starts at the end of the log (used to test C7)
StartAtEnd(session) == Len(session.messages)

\* message_index = 0
StartIndex(session) == 0

\* time.sleep: every session is idle for one more tick (time is counted in
\* sleeps of the subscriber)
Older(h) ==
    [o \in DOMAIN h |->
        [h[o] EXCEPT !.idle = IF @ > ExpiryTicks THEN @ ELSE @ + 1]]

NoSubscriber ==
    [pc |-> "none", id |-> "", session |-> NoSession, message_index |-> 0,
     current_message_count |-> 0, timeout_counter |-> 0, delivered |-> <<>>,
     backlog |-> 0]

\* the generator is gone, and its locals with it
Ended == [NoSubscriber EXCEPT !.pc = "ended"]

\* the finally block of event_stream: session.is_active = False
Finally(h) ==
    /\ heap' = [h EXCEPT ![sub.session].is_active = FALSE]
    /\ sub' = Ended

\* POST /api/query/stream creates the session under an id never used before
CreateStream(session_id) ==
    /\ UNCHANGED notSSE
    /\ session_id \notin used_ids
    /\ Len(heap) < MaxSessions
    /\ sessions' = create_session(sessions, session_id, Len(heap) + 1)
    /\ heap' = Append(heap, SSESession)
    /\ published' = Append(published, <<>>)
    /\ used_ids' = used_ids \cup {session_id}
    /\ latest' = [latest EXCEPT ![session_id] = <<>>]
    /\ replaced' = [replaced EXCEPT ![session_id] = NoSession]
    /\ UNCHANGED <<sub, nSent, nConn>>

\* the object o once no id is registered for it: is_expired is not asked of it
\* again, so its last_activity is not kept
Unregistered(h, o) == [h EXCEPT ![o].idle = ExpiryTicks + 1]

\* POST /api/query/stream draws an id that is registered: create_session
\* replaces the session
RecreateStream(session_id) ==
    /\ UNCHANGED notSSE
    /\ session_id \in DOMAIN sessions
    /\ Len(heap) < MaxSessions
    /\ sessions' = create_session(sessions, session_id, Len(heap) + 1)
    /\ heap' = Append(Unregistered(heap, sessions[session_id]), SSESession)
    /\ published' = Append(published, <<>>)
    /\ latest' = [latest EXCEPT ![session_id] = <<>>]
    /\ replaced' = [replaced EXCEPT ![session_id] = sessions[session_id]]
    /\ UNCHANGED <<sub, used_ids, nSent, nConn>>

\* SSEManager.send_event: False for a missing or an inactive session,
\* otherwise the event joins the messages of the session
SendEvent(session_id, data) ==
    /\ UNCHANGED notSSE
    /\ nSent < MaxEvents
    /\ LET session == get_session(sessions, session_id)
       IN IF session = NoSession \/ ~heap[session].is_active
          THEN UNCHANGED <<heap, published, nSent, latest>>
          ELSE /\ heap' = [heap EXCEPT ![session] = add_message(@, data)]
               /\ published' = [published EXCEPT ![session] = Append(@, data)]
               /\ latest' = [latest EXCEPT ![session_id] = Append(@, data)]
               /\ nSent' = nSent + 1
    /\ UNCHANGED <<sessions, sub, used_ids, nConn, replaced>>

\* GET /api/stream/<session_id>: event_stream up to its first frames; a
\* missing session is created
SubConnect(session_id) ==
    /\ UNCHANGED notSSE
    /\ sub.pc \in {"none", "ended"}
    /\ nConn < MaxConnects
    /\ nConn' = nConn + 1
    /\ LET found == get_session(sessions, session_id)
           session == IF found = NoSession THEN Len(heap) + 1 ELSE found
       IN /\ found = NoSession => Len(heap) < MaxSessions
          /\ IF found = NoSession
             THEN /\ sessions' = create_session(sessions, session_id, session)
                  /\ heap' = Append(heap, SSESession)
                  /\ published' = Append(published, <<>>)
                  /\ latest' = [latest EXCEPT ![session_id] = <<>>]
                  /\ replaced' = [replaced EXCEPT ![session_id] = NoSession]
             ELSE UNCHANGED <<sessions, heap, published, latest, replaced>>
          /\ sub' = [NoSubscriber EXCEPT
                        !.pc = "connected", !.id = session_id,
                        !.session = session,
                        !.delivered = <<Connected(session_id)>>,
                        !.backlog = IF found = NoSession THEN 0
                                    ELSE Len(heap[found].messages)]
    /\ used_ids' = used_ids \cup {session_id}
    /\ UNCHANGED nSent

\* the first frames are out: the locals of the loop
SubStart ==
    /\ UNCHANGED notSSE
    /\ sub.pc = "connected"
    /\ sub' = [sub EXCEPT !.pc = "loop",
                          !.message_index = StartIndex(heap[sub.session]),
                          !.timeout_counter = 0]
    /\ UNCHANGED <<sessions, heap, published, used_ids, nSent, nConn, latest, replaced>>

\* the client leaves during the first frames, outside the try block
SubAbort ==
    /\ UNCHANGED notSSE
    /\ sub.pc = "connected"
    /\ sub' = Ended
    /\ UNCHANGED <<sessions, heap, published, used_ids, nSent, nConn, latest, replaced>>

\* one pass of the while loop up to the yield or the sleep; due: the cleanup
\* interval has passed
SubLoop(due) ==
    /\ UNCHANGED notSSE
    /\ sub.pc = "loop"
    /\ IF ~(heap[sub.session].is_active /\ sub.timeout_counter < MaxIdleSleeps)
       THEN /\ Finally(heap)
            /\ UNCHANGED sessions
       ELSE /\ sessions' = IF due /\ sub.timeout_counter = 0
                           THEN cleanup_expired_sessions(sessions, heap)
                           ELSE sessions
            /\ LET current_message_count == Len(heap[sub.session].messages)
               IN sub' = [sub EXCEPT
                            !.current_message_count = current_message_count,
                            !.pc = IF sub.message_index < current_message_count
                                   THEN "deliver" ELSE "sleep"]
            /\ UNCHANGED heap
    /\ UNCHANGED <<published, used_ids, nSent, nConn, latest, replaced>>

\* yield session.messages[message_index]
SubDeliver ==
    /\ UNCHANGED notSSE
    /\ sub.pc = "deliver"
    /\ LET message == heap[sub.session].messages[sub.message_index + 1]
           message_index == sub.message_index + 1
           last == message_index >= sub.current_message_count
       IN sub' = [sub EXCEPT
                    !.delivered = Append(@, message),
                    !.message_index = message_index,
                    !.timeout_counter = IF last THEN 0 ELSE @,
                    !.current_message_count = IF last THEN 0 ELSE @,
                    !.pc = IF last THEN "loop" ELSE "deliver"]
    /\ UNCHANGED <<sessions, heap, published, used_ids, nSent, nConn, latest, replaced>>

\* the sleep of the idle branch is over
SubWake ==
    /\ UNCHANGED notSSE
    /\ sub.pc = "sleep"
    /\ IF ~heap[sub.session].is_active
       THEN Finally(Older(heap))
       ELSE /\ heap' = Older(heap)
            /\ sub' = [sub EXCEPT !.pc = "loop", !.timeout_counter = @ + 1,
                                  !.current_message_count = 0]
    /\ UNCHANGED <<sessions, published, used_ids, nSent, nConn, latest, replaced>>

\* the client leaves at a yield inside the try block: GeneratorExit
SubDisconnect ==
    /\ UNCHANGED notSSE
    /\ \/ sub.pc = "deliver"
       \/ sub.pc = "sleep" /\ sub.timeout_counter > 0
    /\ Finally(heap)
    /\ UNCHANGED <<sessions, published, used_ids, nSent, nConn, latest, replaced>>

SSEInit ==
    /\ sessions = [s \in {} |-> NoSession]
    /\ heap = <<>>
    /\ sub = NoSubscriber
    /\ published = <<>>
    /\ used_ids = {}
    /\ nSent = 0
    /\ nConn = 0
    /\ latest = [id \in StreamIds |-> <<>>]
    /\ replaced = [id \in StreamIds |-> NoSession]

\* the steps of the event_stream generator once it is connected
SubStep ==
    \/ SubStart
    \/ \E due \in BOOLEAN : SubLoop(due)
    \/ SubDeliver
    \/ SubWake

SSENext ==
    \/ \E session_id \in StreamIds : CreateStream(session_id)
    \/ \E session_id \in StreamIds, data \in EventData : SendEvent(session_id, data)
    \/ \E session_id \in StreamIds : SubConnect(session_id)
    \/ SubStep
    \/ SubAbort
    \/ SubDisconnect

\* the id whose session is replaced
ReusedIds == {"s1"}

\* the progress bus when api_query_stream draws a registered id again
ReplaceNext ==
    \/ \E session_id \in ReusedIds : CreateStream(session_id)
    \/ \E session_id \in ReusedIds : RecreateStream(session_id)
    \/ \E session_id \in ReusedIds, data \in EventData : SendEvent(session_id, data)
    \/ \E session_id \in ReusedIds : SubConnect(session_id)
    \/ SubStep
    \/ SubAbort
    \/ SubDisconnect

(***************************************************************************)
(* Claims about the progress bus, checked under SpecSSE and SpecReplace    *)
(***************************************************************************)
\* the subscriber's stream is open
Streaming == sub.pc \in {"connected", "loop", "deliver", "sleep"}

\* the events the subscriber has received after the first frame
Received == Tail(sub.delivered)

IsPrefix(s, t) == Len(s) <= Len(t) /\ s = SubSeq(t, 1, Len(s))

\* every frame so far: Connected first, then the events published to the
\* session from its first one on, in publication order, none missing, none
\* twice; a subscriber that finds nothing new has received every event
\* published up to that look, those published before it connected included
C7_InOrder ==
    Streaming =>
        /\ Head(sub.delivered) = Connected(sub.id)
        /\ IsPrefix(Received, published[sub.session])
        /\ sub.pc = "sleep" =>
              /\ sub.current_message_count >= sub.backlog
              /\ Received = SubSeq(published[sub.session], 1, sub.current_message_count)

\* C7: within one SSE session the subscriber receives Connected first and then
\* every event published to the session, in publication order, without loss,
\* duplication or reordering, the events published before it connected
\* included: every frame received so far is in order, and a stream that stays
\* open catches up, again and again, with everything published to its session
C7_OrderedDelivery ==
    /\ []C7_InOrder
    /\ []<>(Streaming => Received = published[sub.session])

\* C7 witness: the subscriber has received an event published before it
\* connected and then a different one published after, and nothing is pending
C7_Witness ==
    /\ Streaming
    /\ sub.backlog = 1
    /\ Len(Received) = 2
    /\ Received = published[sub.session]
    /\ Received[1] # Received[2]

\* the subscriber's stream is open on the session registered under its id
OnRegistered ==
    /\ Streaming
    /\ sub.id \in DOMAIN sessions
    /\ sessions[sub.id] = sub.session

\* the events received by a subscriber of the registered session are events
\* accepted since the last create_session of its id, in order from the first
C18_NoLeak == OnRegistered => IsPrefix(Received, latest[sub.id])

Init ==
    MemInit /\ FlowInit /\ CacheInit /\ SSEInit /\ RouteInit /\ PureInit /\ GatherInit
    /\ EmbedInit /\ IdleInit

\* concurrent requests on the conversation memory
Next == MemNext

Spec == Init /\ [][Next]_vars

\* one request at a time through its handler and pipeline
SpecFlow == Init /\ [][FlowNext]_vars

\* concurrent calls of _call_openai_optimized as time passes
SpecCache == Init /\ [][CacheNext]_vars

\* publishers and the subscriber of a session id that is drawn again
SpecReplace == Init /\ [][ReplaceNext]_vars /\ WF_vars(SubStep)

\* the tasks and the awaited steps of two pipeline runs
SpecGather == Init /\ [][GatherNext]_vars

\* Embed calls of the embedding client, one attempt at a time
SpecEmbed == Init /\ [][EmbedNext]_vars

\* the idle loop of event_stream against the time it sleeps
SpecIdle == Init /\ [][IdleNext]_vars

\* whole Embed calls filling the embedding cache
SpecEmbedCache == Init /\ [][EmbedCacheNext]_vars

\* calls of the pure functions
SpecPure == Init /\ [][PureNext]_vars

\* runs of the routing phase of the two pipelines
SpecRoute == Init /\ [][RouteNext]_vars

\* publishers and the subscriber of the progress bus; the generator, driven by
\* the server, keeps taking its steps
SpecSSE == Init /\ [][SSENext]_vars /\ WF_vars(SubStep)

====
